---- MODULE Spec2Model ----
(***************************************************************************)
(* SECS-Sim: the scenario runner of App.tsx (runScenario and the handlers  *)
(* around it), its parameter resolver (resolveBody), its validation        *)
(* (validateParameter) and the static tables of constants.ts.              *)
(*                                                                         *)
(* Text is a sequence of symbols.  A symbol is one character ("{", "\"",   *)
(* "1", "$", ...) or one whole word of letters ("OBJID", "WaferMap_01").   *)
(* A word stands for its letters: no operation of the program splits one,  *)
(* because the only pattern matched against text is {{KEY}} (delimited by  *)
(* braces) and JSON's grammar (delimited by quotes and punctuation).  No   *)
(* word of the model is a JSON literal prefix or one of the escape letters *)
(* b f n r t u, so \WORD is an invalid escape, as in the program.          *)
(***************************************************************************)
EXTENDS Integers, Sequences, FiniteSets, TLC

\* ------------------------------------------------------------------ text

Q == "\""
BS == "\\"
Digits == {"0", "1", "2", "3", "4", "5", "6", "7", "8", "9"}
Literals == {"true", "false", "null"}
Punct == {"{", "}", "[", "]", ":", ",", Q, BS, "$", "&", "-", " ", "/", "`", "'"}

IsWord(c) == c \notin Punct /\ c \notin Digits /\ c \notin Literals

At(s, i) == IF i >= 1 /\ i <= Len(s) THEN s[i] ELSE "<EOF>"

\* The element of a one-element set.  Only({e(x) : x \in {v}}) is e of v,
\* a local binding (const x = v; ... x ...) whose v is evaluated once however
\* often e uses x.
Only(S) == CHOOSE y \in S : TRUE

RECURSIVE Concat(_)
Concat(ss) == IF ss = <<>> THEN <<>> ELSE Head(ss) \o Concat(Tail(ss))

RECURSIVE JoinComma(_)
JoinComma(ss) ==
  IF ss = <<>> THEN <<>>
  ELSE IF Len(ss) = 1 THEN Head(ss)
  ELSE Head(ss) \o <<",">> \o JoinComma(Tail(ss))

\* ------------------------------------------------------ JSON values
\* A JSON value is [t, v]: t = "str" (v the symbols), "num" (v the digits,
\* with a leading "-" when negative), "lit" (v = <<"true">>, ...), "arr"
\* (v the elements) or "obj" (v the members <<key, value>> in key order).

JStr(s) == [t |-> "str", v |-> s]
JNum(s) == [t |-> "num", v |-> s]
JLit(w) == [t |-> "lit", v |-> <<w>>]
JArr(es) == [t |-> "arr", v |-> es]
JObj(ms) == [t |-> "obj", v |-> ms]

\* JSON.stringify of a string: quoted, with " and \ escaped.
EscapeChar(c) == IF c = Q THEN <<BS, Q>> ELSE IF c = BS THEN <<BS, BS>> ELSE <<c>>

QuoteString(s) == <<Q>> \o Concat([i \in DOMAIN s |-> EscapeChar(s[i])]) \o <<Q>>

\* JSON.stringify of a value.  -0 prints as 0.
RECURSIVE JSONstringify(_)
JSONstringify(x) ==
  CASE x.t = "str" -> QuoteString(x.v)
    [] x.t = "num" -> IF x.v = <<"-", "0">> THEN <<"0">> ELSE x.v
    [] x.t = "lit" -> x.v
    [] x.t = "arr" ->
         <<"[">> \o JoinComma([i \in DOMAIN x.v |-> JSONstringify(x.v[i])]) \o <<"]">>
    [] x.t = "obj" ->
         <<"{">>
         \o JoinComma([i \in DOMAIN x.v |->
                        QuoteString(x.v[i][1]) \o <<":">> \o JSONstringify(x.v[i][2])])
         \o <<"}">>

\* JSON.parse, by recursive descent.  A result is [ok, val, pos]: pos is the
\* position after the value.
ParseFail == [ok |-> FALSE, val |-> JLit("null"), pos |-> 0]
ParseOk(x, p) == [ok |-> TRUE, val |-> x, pos |-> p]

RECURSIVE SkipWS(_, _)
SkipWS(s, i) == IF At(s, i) = " " THEN SkipWS(s, i + 1) ELSE i

\* The string whose opening quote is before position i; acc is what was read.
RECURSIVE ParseStringFrom(_, _, _)
ParseStringFrom(s, i, acc) ==
  IF i > Len(s) THEN ParseFail
  ELSE IF s[i] = Q THEN ParseOk(acc, i + 1)
  ELSE IF s[i] = BS
    THEN IF At(s, i + 1) \in {Q, BS, "/"}
           THEN ParseStringFrom(s, i + 2, Append(acc, s[i + 1]))
           ELSE ParseFail
  ELSE ParseStringFrom(s, i + 1, Append(acc, s[i]))

RECURSIVE DigitsEnd(_, _)
DigitsEnd(s, i) == IF At(s, i) \in Digits THEN DigitsEnd(s, i + 1) ELSE i

\* -?(0|[1-9][0-9]*): the alphabet has neither "." nor an exponent letter.
ParseNumber(s, i) ==
  LET d == IF At(s, i) = "-" THEN i + 1 ELSE i
      e == IF At(s, d) = "0" THEN d + 1 ELSE DigitsEnd(s, d)
  IN IF At(s, d) \notin Digits THEN ParseFail
     ELSE ParseOk(JNum(SubSeq(s, i, e - 1)), e)

\* A later member with the key of an earlier one replaces its value in place.
PutMember(ms, k, x) ==
  IF \E i \in DOMAIN ms : ms[i][1] = k
    THEN [i \in DOMAIN ms |-> IF ms[i][1] = k THEN <<k, x>> ELSE ms[i]]
    ELSE Append(ms, <<k, x>>)

RECURSIVE ParseValue(_, _)
RECURSIVE ParseElements(_, _, _)
RECURSIVE ParseMembers(_, _, _)
RECURSIVE ParseMemberAfterKey(_, _, _)

\* The elements of an array, from position i (an element is due there).
ParseElements(s, i, acc) ==
  Only({ IF ~r.ok THEN ParseFail
         ELSE Only({ LET j == SkipWS(s, r.pos)
                     IN IF At(s, j) = "," THEN ParseElements(s, j + 1, es)
                        ELSE IF At(s, j) = "]" THEN ParseOk(JArr(es), j + 1)
                        ELSE ParseFail
                     : es \in {Append(acc, r.val)} })
         : r \in {ParseValue(s, i)} })

\* The member whose key is k (a parsed string), from the position after the
\* key, and the members after it.
ParseMemberAfterKey(s, k, acc) ==
  LET c == SkipWS(s, k.pos)
  IN IF ~k.ok \/ At(s, c) # ":" THEN ParseFail
     ELSE Only({ IF ~r.ok THEN ParseFail
                 ELSE Only({ LET j == SkipWS(s, r.pos)
                             IN IF At(s, j) = "," THEN ParseMembers(s, j + 1, ms)
                                ELSE IF At(s, j) = "}" THEN ParseOk(JObj(ms), j + 1)
                                ELSE ParseFail
                             : ms \in {PutMember(acc, k.val, r.val)} })
                 : r \in {ParseValue(s, c + 1)} })

\* The members of an object, from position i (a member is due there).
ParseMembers(s, i, acc) ==
  LET k0 == SkipWS(s, i)
  IN IF At(s, k0) # Q THEN ParseFail
     ELSE Only({ ParseMemberAfterKey(s, k, acc) : k \in {ParseStringFrom(s, k0 + 1, <<>>)} })

ParseValue(s, i0) ==
  LET i == SkipWS(s, i0)
      c == At(s, i)
  IN CASE c = "{" ->
            IF At(s, SkipWS(s, i + 1)) = "}"
              THEN ParseOk(JObj(<<>>), SkipWS(s, i + 1) + 1)
              ELSE ParseMembers(s, i + 1, <<>>)
       [] c = "[" ->
            IF At(s, SkipWS(s, i + 1)) = "]"
              THEN ParseOk(JArr(<<>>), SkipWS(s, i + 1) + 1)
              ELSE ParseElements(s, i + 1, <<>>)
       [] c = Q ->
            Only({ IF r.ok THEN ParseOk(JStr(r.val), r.pos) ELSE ParseFail
                   : r \in {ParseStringFrom(s, i + 1, <<>>)} })
       [] c \in Digits \cup {"-"} -> ParseNumber(s, i)
       [] c \in Literals -> ParseOk(JLit(c), i + 1)
       [] OTHER -> ParseFail

\* JSON.parse(str): one value and nothing after it, or a SyntaxError (~ok).
JSONparse(str) ==
  Only({ Only({ IF r.ok /\ SkipWS(s, r.pos) = Len(s) + 1 THEN r ELSE ParseFail
                : r \in {ParseValue(s, 1)} })
         : s \in {str} })

\* ------------------------------------------------- String.prototype.replace

\* new RegExp(`{{${key}}}`, 'g') matches the five symbols { { key } }.
MatchAt(s, i, key) ==
  /\ At(s, i) = "{" /\ At(s, i + 1) = "{"
  /\ At(s, i + 2) = key
  /\ At(s, i + 3) = "}" /\ At(s, i + 4) = "}"

\* The replacement text for the match at position pos of s: $$ is $, $& the
\* match, $` the text before it, $' the text after it; the pattern has no
\* capture group, so $1 is literal.
RECURSIVE GetSubstitution(_, _, _, _)
GetSubstitution(rep, k, s, pos) ==
  IF k > Len(rep) THEN <<>>
  ELSE IF rep[k] = "$" /\ At(rep, k + 1) = "$"
    THEN <<"$">> \o GetSubstitution(rep, k + 2, s, pos)
  ELSE IF rep[k] = "$" /\ At(rep, k + 1) = "&"
    THEN SubSeq(s, pos, pos + 4) \o GetSubstitution(rep, k + 2, s, pos)
  ELSE IF rep[k] = "$" /\ At(rep, k + 1) = "`"
    THEN SubSeq(s, 1, pos - 1) \o GetSubstitution(rep, k + 2, s, pos)
  ELSE IF rep[k] = "$" /\ At(rep, k + 1) = "'"
    THEN SubSeq(s, pos + 5, Len(s)) \o GetSubstitution(rep, k + 2, s, pos)
  ELSE <<rep[k]>> \o GetSubstitution(rep, k + 1, s, pos)

\* str.replace(/{{key}}/g, rep): one left-to-right pass over str; what a
\* replacement inserts is not scanned again.
RECURSIVE ReplaceFrom(_, _, _, _)
ReplaceFrom(s, i, key, rep) ==
  IF i > Len(s) THEN <<>>
  ELSE IF MatchAt(s, i, key)
    THEN GetSubstitution(rep, 1, s, i) \o ReplaceFrom(s, i + 5, key, rep)
  ELSE <<s[i]>> \o ReplaceFrom(s, i + 1, key, rep)

\* Object.entries(paramValues).forEach(...): one replace per entry, in the
\* entries' order, each on the result of the one before.
RECURSIVE SubstituteAll(_, _)
SubstituteAll(str, pv) ==
  IF pv = <<>> THEN str
  ELSE Only({ Only({ SubstituteAll(next, Tail(pv))
                     : next \in {ReplaceFrom(s, 1, pv[1][1], pv[1][2])} })
              : s \in {str} })

\* !body, for a JSON value.
Falsy(body) ==
  \/ body.t = "lit" /\ body.v \in {<<"null">>, <<"false">>}
  \/ body.t = "str" /\ body.v = <<>>
  \/ body.t = "num" /\ body.v \in {<<"0">>, <<"-", "0">>}

\* resolveBody(body) with the run's paramValues: [ok, val]; ~ok is the
\* exception JSON.parse throws.
resolveBody(body, pv) ==
  IF Falsy(body) THEN [ok |-> TRUE, val |-> body]
  ELSE Only({ [ok |-> r.ok, val |-> r.val]
              : r \in {JSONparse(SubstituteAll(JSONstringify(body), pv))} })

\* Some {{word}} is left in the text.
HasPlaceholder(s) ==
  \E i \in DOMAIN s :
    /\ At(s, i) = "{" /\ At(s, i + 1) = "{"
    /\ IsWord(At(s, i + 2))
    /\ At(s, i + 3) = "}" /\ At(s, i + 4) = "}"

\* ------------------------------------------------------------ validation

DigitVal(c) ==
  CASE c = "0" -> 0 [] c = "1" -> 1 [] c = "2" -> 2 [] c = "3" -> 3 [] c = "4" -> 4
    [] c = "5" -> 5 [] c = "6" -> 6 [] c = "7" -> 7 [] c = "8" -> 8 [] c = "9" -> 9

RECURSIVE DecimalValue(_)
DecimalValue(ds) ==
  IF ds = <<>> THEN 0
  ELSE 10 * DecimalValue(SubSeq(ds, 1, Len(ds) - 1)) + DigitVal(ds[Len(ds)])

RECURSIVE Trim(_)
Trim(s) ==
  IF s # <<>> /\ Head(s) = " " THEN Trim(Tail(s))
  ELSE IF s # <<>> /\ s[Len(s)] = " " THEN Trim(SubSeq(s, 1, Len(s) - 1))
  ELSE s

\* Number(value): white space trimmed; the empty text is 0; an optional "-"
\* and decimal digits (leading zeros allowed); anything else is NaN.
Number(value) ==
  LET t == Trim(value)
      neg == t # <<>> /\ Head(t) = "-"
      ds == IF neg THEN Tail(t) ELSE t
  IN IF t = <<>> THEN [nan |-> FALSE, n |-> 0]
     ELSE IF ds # <<>> /\ \A i \in DOMAIN ds : ds[i] \in Digits
       THEN [nan |-> FALSE, n |-> IF neg THEN 0 - DecimalValue(ds) ELSE DecimalValue(ds)]
     ELSE [nan |-> TRUE, n |-> 0]

\* A parameter declaration; min and max are <<>> when undefined, else <<n>>;
\* options is the set of an ENUM's options, {} when it declares none.
ParamOpt(key, type, default, min, max, options) ==
  [key |-> key, type |-> type, defaultValue |-> default, min |-> min, max |-> max,
   options |-> options]

Param(key, type, default, min, max) == ParamOpt(key, type, default, min, max, {})

NoError == [msg |-> "null", n |-> <<>>]

\* The mutant of validateParameter: bounds taken as exclusive.
validateParameterExclusive(param, value) ==
  IF value = <<>> THEN [msg |-> "Value is required", n |-> <<>>]
  ELSE IF param.type = "NUMBER"
    THEN LET num == Number(value)
         IN IF num.nan THEN [msg |-> "Must be a number", n |-> <<>>]
            ELSE IF param.min # <<>> /\ num.n <= param.min[1]
              THEN [msg |-> "Min value", n |-> param.min]
            ELSE IF param.max # <<>> /\ num.n >= param.max[1]
              THEN [msg |-> "Max value", n |-> param.max]
            ELSE NoError
  ELSE NoError

\* validateParameter(param, value): the error message, or NoError for null.
validateParameter(param, value) ==
  IF value = <<>> THEN [msg |-> "Value is required", n |-> <<>>]
  ELSE IF param.type = "NUMBER"
    THEN LET num == Number(value)
         IN IF num.nan THEN [msg |-> "Must be a number", n |-> <<>>]
            ELSE IF param.min # <<>> /\ num.n < param.min[1]
              THEN [msg |-> "Min value", n |-> param.min]
            ELSE IF param.max # <<>> /\ num.n > param.max[1]
              THEN [msg |-> "Max value", n |-> param.max]
            ELSE NoError
  ELSE NoError

\* ------------------------------------------------------------ the tables

\* Shorthands for table entries: a one-word string, a placeholder string
\* "{{key}}", a member.
S(w) == JStr(<<w>>)
P(key) == JStr(<<"{", "{", key, "}", "}">>)
M(k, x) == <<(<<k>>), x>>
Zero == JNum(<<"0">>)
One == JNum(<<"1">>)

\* A message to send; a step.  expectedResponseSxFy, simulateDelay and
\* timeout are <<>> when the step does not declare them, else <<value>>.
Msg(stream, function, waitBit, name, body) ==
  [stream |-> stream, function |-> function, waitBit |-> waitBit,
   name |-> name, body |-> body]

Step(name, msg, expected, delay, timeout) ==
  [name |-> name, messageToSend |-> msg, expectedResponseSxFy |-> expected,
   simulateDelay |-> delay, timeout |-> timeout]

Scenario(id, title, params, steps) ==
  [id |-> id, title |-> title, parameters |-> params, steps |-> steps]

E9CommEst ==
  Scenario("e9-comm-est", "E9: Establish Communications", <<>>,
    << Step("Are You There?",
            Msg(1, 1, TRUE, "Are You There Request", JObj(<<>>)),
            <<"S1F2">>, <<>>, <<5000>>),
       Step("Establish Comm",
            Msg(1, 13, TRUE, "Establish Comm Request", JObj(<<M("COMMACK", Zero)>>)),
            <<"S1F14">>, <<>>, <<5000>>) >>)

E9OnlineControl ==
  Scenario("e9-online-control", "E9: Online/Remote Control", <<>>,
    << Step("Go Online",
            Msg(1, 17, TRUE, "Request ON-LINE", JObj(<<>>)),
            <<"S1F18">>, <<>>, <<10000>>),
       Step("Remote Command (START)",
            Msg(2, 41, TRUE, "Host Command Send",
                JObj(<<M("RCMD", S("START")), M("CPNAME", S("LOT_ID")),
                       M("CPVAL", S("TEST_LOT_001"))>>)),
            <<"S2F42">>, <<>>, <<10000>>) >>)

E9Timeout ==
  Scenario("e9-timeout", "E9: Timeout Handling (Negative Test)", <<>>,
    << Step("Normal Ping",
            Msg(1, 1, TRUE, "Are You There", JObj(<<>>)),
            <<"S1F2">>, <<500>>, <<5000>>),
       Step("Slow Response (Fail)",
            Msg(1, 13, TRUE, "Establish Comm", JObj(<<M("COMMACK", Zero)>>)),
            <<"S1F14">>, <<8000>>, <<2000>>) >>)

E142MapTransfer ==
  Scenario("e142-map-transfer", "E142: Substrate Map Transfer", <<>>,
    << Step("Map Setup Data",
            Msg(12, 3, TRUE, "Map Setup Data Send",
                JObj(<<M("MID", S("WAFER_01")), M("IDTYP", S("WAFER"))>>)),
            <<"S12F4">>, <<>>, <<10000>>),
       Step("Request Map",
            Msg(12, 1, TRUE, "Map Data Request",
                JObj(<<M("MID", S("WAFER_01")), M("IDTYP", S("WAFER")),
                       M("MAPFT", One), M("FNLOC", Zero)>>)),
            <<"S12F2">>, <<>>, <<30000>>) >>)

E142ObjServices ==
  Scenario("e142-obj-services", "E142: Object Services (S14)",
    << Param("OBJID", "STRING", <<"WaferMap_01">>, <<>>, <<>>),
       Param("ATTRID", "STRING", <<"BinMap">>, <<>>, <<>>),
       Param("NEWVAL", "NUMBER", <<"1", "0", "0">>, <<0>>, <<9999>>) >>,
    << Step("Get Attribute (S14F1)",
            Msg(14, 1, TRUE, "GetAttr",
                JObj(<<M("OBJID", P("OBJID")), M("OBJTYPE", S("SubstrateMap")),
                       M("ATTRID", JArr(<<P("ATTRID")>>))>>)),
            <<"S14F2">>, <<>>, <<10000>>),
       Step("Set Attribute (S14F3)",
            Msg(14, 3, TRUE, "SetAttr",
                JObj(<<M("OBJID", P("OBJID")), M("OBJTYPE", S("SubstrateMap")),
                       M("ATTRID", P("ATTRID")), M("ATTRDATA", P("NEWVAL"))>>)),
            <<"S14F4">>, <<>>, <<10000>>),
       Step("Get Type (S14F5)",
            Msg(14, 5, TRUE, "GetType", JObj(<<M("OBJID", P("OBJID"))>>)),
            <<"S14F6">>, <<>>, <<5000>>) >>)

\* The options of the one ENUM parameter (OBJTYPE of e142-trace-setup).
ObjTypeOptions ==
  {<<"SubstrateMap">>, <<"Equipment">>, <<"Port">>, <<"Carrier">>}

E142TraceSetup ==
  Scenario("e142-trace-setup", "E142: Trace Data Setup (S14F11)",
    << Param("OBJID", "STRING", <<"WaferMap_01">>, <<>>, <<>>),
       ParamOpt("OBJTYPE", "ENUM", <<"SubstrateMap">>, <<>>, <<>>, ObjTypeOptions) >>,
    << Step("Get Attr Names (S14F11)",
            Msg(14, 11, TRUE, "GetAttrNames",
                JObj(<<M("OBJID", P("OBJID")), M("OBJTYPE", P("OBJTYPE"))>>)),
            <<"S14F12">>, <<>>, <<5000>>) >>)

E142TraceTransmission ==
  Scenario("e142-trace-transmission", "E142: Trace Data Transmission (S14F13)",
    << Param("OBJID", "STRING", <<"WaferMap_01">>, <<>>, <<>>),
       Param("ATTRLIST", "STRING", <<"ProcessState">>, <<>>, <<>>),
       Param("INTERVAL", "NUMBER", <<"1", "0", "0", "0">>, <<100>>, <<60000>>) >>,
    << Step("Establish Trace (S14F13)",
            Msg(14, 13, TRUE, "Establish Trace Request",
                JObj(<<M("OBJID", P("OBJID")), M("ATTRID", JArr(<<P("ATTRLIST")>>)),
                       M("DSPER", P("INTERVAL"))>>)),
            <<"S14F14">>, <<>>, <<5000>>) >>)

TEST_SCENARIOS ==
  << E9CommEst, E9OnlineControl, E9Timeout, E142MapTransfer, E142ObjServices,
     E142TraceSetup, E142TraceTransmission >>

\* MOCK_RESPONSES: the keys it has, and the payload of each.
MockKeys ==
  {"S1F1", "S1F13", "S1F17", "S2F41", "S12F3", "S12F1", "S14F2", "S14F4",
   "S14F6", "S14F12", "S14F14"}

MOCK_RESPONSES(k) ==
  CASE k = "S1F1" ->
         JObj(<<M("MDLN", S("GEMINI-SIM-TOOL")), M("SOFTREV", S("1.0.0"))>>)
    [] k = "S1F13" ->
         JObj(<<M("COMMACK", Zero), M("MDLN", JArr(<<S("GEMINI-SIM-TOOL")>>)),
                M("SOFTREV", JArr(<<S("1.0.0")>>))>>)
    [] k = "S1F17" -> JObj(<<M("ONLACK", Zero)>>)
    [] k = "S2F41" ->
         JObj(<<M("HCACK", Zero), M("CPNAME", JArr(<<>>)), M("CPACK", JArr(<<>>))>>)
    [] k = "S12F3" -> JObj(<<M("SDACK", Zero)>>)
    [] k = "S12F1" ->
         JObj(<<M("MID", S("WAFER_01")), M("IDTYP", S("WAFER")), M("FNLOC", Zero),
                M("ORLOC", One), M("RPSEL", Zero), M("REFP", JArr(<<Zero, Zero>>)),
                M("DUTMS", S("mm")), M("XDIUS", JNum(<<"3", "0", "0">>)),
                M("YDIUS", JNum(<<"3", "0", "0">>)),
                M("BINLT", JArr(<<S("01"), S("02"), S("03")>>)),
                M("MLCL", JNum(<<"5", "0", "0">>))>>)
    [] k = "S14F2" ->
         JObj(<<M("OBJID", S("WaferMap_01")), M("ATTRID", JArr(<<S("BinMap")>>)),
                M("ATTRDATA", JArr(<<S("001001001")>>))>>)
    [] k = "S14F4" ->
         JObj(<<M("OBJID", S("WaferMap_01")), M("ATTRID", S("BinMap")),
                M("ERRCODE", Zero)>>)
    [] k = "S14F6" ->
         JObj(<<M("OBJID", S("WaferMap_01")), M("OBJTYPE", S("SubstrateMap"))>>)
    [] k = "S14F12" ->
         JObj(<<M("OBJID", S("WaferMap_01")), M("OBJTYPE", S("SubstrateMap")),
                M("ERRCODE", Zero),
                M("ATTRID", JArr(<<S("BinMap"), S("Layout"), S("DimensionX"),
                                   S("DimensionY"), S("ProcessState")>>))>>)
    [] k = "S14F14" ->
         JObj(<<M("OBJID", S("WaferMap_01")), M("ATTRID", JArr(<<S("ProcessState")>>)),
                M("RAC", Zero), M("ERRCODE", Zero)>>)

\* The fallback acknowledgement { "ACK": 0 }.
FallbackAck == JObj(<<M("ACK", Zero)>>)
EmptyDetail == JObj(<<>>)

\* ------------------------------------------------------------- the state

VARIABLES
  scenarios,         \* useState(TEST_SCENARIOS): the catalog
  selectedScenario,  \* <<>> for null, else <<scenario>>
  logs,              \* the transcript, oldest first
  results,           \* the verdict history, newest first
  runningStep,       \* <<>> for null, else <<index>> (from 0)
  paramValues,       \* the entries <<key, value>> of the object, in its key order
  validationErrors,  \* a function from the keys in error to their message
  runs,              \* the runScenario calls in flight, each suspended at an await
  now,               \* the clock, in ms: what new Date() reads
  nruns,             \* how many calls have entered Running (to bound the model)
  nevents,           \* how many other events were handled (to bound the model)
  activeTab,         \* useState('scenarios'): the tab shown
  report,            \* ReportPanel's report: <<>> for null, else <<value>>
  loading,           \* ReportPanel's loading: a generateTestReport call is awaited
  apiKey,            \* whether process.env.API_KEY is set in this build
  console            \* what console.error has written, oldest first

\* The report panel's part of the state.
reportVars == <<activeTab, report, loading, apiKey, console>>

vars ==
  <<scenarios, selectedScenario, logs, results, runningStep, paramValues,
    validationErrors, runs, now, nruns, nevents, activeTab, report, loading,
    apiKey, console>>

\* ---------------------------------------------------------------- bounds

MaxRuns == 2
MaxEvents == 3
MaxSteps == 2

\* ------------------------------------------------------- program constants

DefaultTimeout == 10000
DefaultDelay == 600
T3Pause == 500
StepPause == 800

\* ------------------------------------------------------------------ addLog

Summary(text, a, s) == [text |-> text, a |-> a, s |-> s]

\* The new entry put first: [entry, ...prev].
addLogPrepended(lg, t, direction, summary, detail, type) ==
  <<[direction |-> direction, summary |-> summary,
     detail |-> JSONstringify(detail), type |-> type, timestamp |-> t]>> \o lg

\* The update from the transcript of the first render, [...logs, entry], in
\* place of the functional one.
addLogStale(lg, t, direction, summary, detail, type) ==
  <<[direction |-> direction, summary |-> summary,
     detail |-> JSONstringify(detail), type |-> type, timestamp |-> t]>>

\* addLog(direction, summary, detail, type) at time t, on the transcript lg.
addLog(lg, t, direction, summary, detail, type) ==
  Append(lg, [direction |-> direction, summary |-> summary,
              detail |-> JSONstringify(detail), type |-> type, timestamp |-> t])

\* --------------------------------------------------------------- the run

\* What a stretch of runScenario between two awaits leaves behind: the
\* transcript, the verdict history, runningStep, and the call itself (<<>>
\* when it has returned, else <<context>>).
Left(lg, res, rs, run) == [logs |-> lg, results |-> res, runningStep |-> rs, run |-> run]

\* The verdict put at the end of the history: [...prev, result].
VerdictAppended(ctx, passed, lg, res, t) ==
  Left(addLog(lg, t, "INFO",
              Summary("Scenario Complete: ", <<>>, <<IF passed THEN "PASSED" ELSE "FAILED">>),
              EmptyDetail, IF passed THEN "success" ELSE "error"),
       res \o <<[scenarioId |-> ctx.scenario.title, timestamp |-> t, passed |-> passed,
                 notes |-> IF passed THEN "All steps completed successfully."
                           ELSE "Scenario failed due to errors or timeouts."]>>,
       <<>>, <<>>)

\* The end of the run without setRunningStep(null).
VerdictKeepsStep(ctx, passed, lg, res, t) ==
  Left(addLog(lg, t, "INFO",
              Summary("Scenario Complete: ", <<>>, <<IF passed THEN "PASSED" ELSE "FAILED">>),
              EmptyDetail, IF passed THEN "success" ELSE "error"),
       <<[scenarioId |-> ctx.scenario.title, timestamp |-> t, passed |-> passed,
          notes |-> IF passed THEN "All steps completed successfully."
                    ELSE "Scenario failed due to errors or timeouts."]>> \o res,
       <<ctx.i>>, <<>>)

\* The completion entry that says PASSED whatever allPassed is.
VerdictSaysPassed(ctx, passed, lg, res, t) ==
  Left(addLog(lg, t, "INFO",
              Summary("Scenario Complete: ", <<>>, <<"PASSED">>),
              EmptyDetail, "success"),
       <<[scenarioId |-> ctx.scenario.title, timestamp |-> t, passed |-> passed,
          notes |-> IF passed THEN "All steps completed successfully."
                    ELSE "Scenario failed due to errors or timeouts."]>> \o res,
       <<>>, <<>>)

\* Lines 166-177: after the loop.
Verdict(ctx, passed, lg, res, t) ==
  Left(addLog(lg, t, "INFO",
              Summary("Scenario Complete: ", <<>>, <<IF passed THEN "PASSED" ELSE "FAILED">>),
              EmptyDetail, IF passed THEN "success" ELSE "error"),
       <<[scenarioId |-> ctx.scenario.title, timestamp |-> t, passed |-> passed,
          notes |-> IF passed THEN "All steps completed successfully."
                    ELSE "Scenario failed due to errors or timeouts."]>> \o res,
       <<>>, <<>>)

timeoutMs(step) == IF step.timeout = <<>> THEN DefaultTimeout ELSE step.timeout[1]
simulateDelayMs(step) ==
  IF step.simulateDelay = <<>> THEN DefaultDelay ELSE step.simulateDelay[1]

\* The condition with >= for >.
T3ConditionAtLeast(step) ==
  step.messageToSend.waitBit /\ simulateDelayMs(step) >= timeoutMs(step)

\* Line 127: the T3 timeout condition.
T3Condition(step) == step.messageToSend.waitBit /\ simulateDelayMs(step) > timeoutMs(step)

\* The wait of the full simulated delay, as in the normal path.
T3WaitFullDelay(step) == simulateDelayMs(step)

\* Line 129: how long the run waits when the T3 condition holds.
T3Wait(step) == timeoutMs(step)

\* The catch without allPassed = false.
OnResolveFailureUnmarked(ctx, step, lg, res, t) ==
  Verdict(ctx, ctx.allPassed,
          addLog(lg, t, "ERROR",
                 Summary("Failed to parse message body for ", <<>>, <<step.name>>),
                 JObj(<<M("error", S("SyntaxError"))>>), "error"),
          res, t)

\* No catch: the exception ends the call after setRunningStep(i).
OnResolveFailureUncaught(ctx, step, lg, res, t) ==
  Left(lg, res, <<IF ctx.pc = "start" THEN 0 ELSE ctx.i + 1>>, <<>>)

\* Lines 113-117: resolveBody threw; the error entry, allPassed = false and
\* the break, which leads to lines 166-177.
OnResolveFailure(ctx, step, lg, res, t) ==
  Verdict(ctx, FALSE,
          addLog(lg, t, "ERROR",
                 Summary("Failed to parse message body for ", <<>>, <<step.name>>),
                 JObj(<<M("error", S("SyntaxError"))>>), "error"),
          res, t)

\* The loop taking the steps from the last to the first.
LoopFromReversed(ctx, i, lg, res, t) ==
  IF i >= Len(ctx.scenario.steps) THEN Verdict(ctx, ctx.allPassed, lg, res, t)
  ELSE
    LET step == ctx.scenario.steps[Len(ctx.scenario.steps) - i]
        msg == step.messageToSend
        msgBody == resolveBody(msg.body, ctx.paramValues)
        sent == addLog(lg, t, "H->E",
                       Summary("SxFy name", <<msg.stream, msg.function>>,
                               <<msg.name, IF msg.waitBit THEN "[W]" ELSE "">>),
                       msgBody.val, "info")
    IN IF ~msgBody.ok THEN OnResolveFailure(ctx, step, lg, res, t)
       ELSE Left(sent, res, <<i>>,
                 <<[ctx EXCEPT !.i = i, !.pc = "delay", !.due = t + simulateDelayMs(step)]>>)

\* Lines 104-141: the loop from its test with index i, up to the next await.
LoopFrom(ctx, i, lg, res, t) ==
  IF i >= Len(ctx.scenario.steps) THEN Verdict(ctx, ctx.allPassed, lg, res, t)
  ELSE
    LET step == ctx.scenario.steps[i + 1]
        msg == step.messageToSend
        msgBody == resolveBody(msg.body, ctx.paramValues)
        sent == addLog(lg, t, "H->E",
                       Summary("SxFy name", <<msg.stream, msg.function>>,
                               <<msg.name, IF msg.waitBit THEN "[W]" ELSE "">>),
                       msgBody.val, "info")
    IN IF ~msgBody.ok THEN OnResolveFailure(ctx, step, lg, res, t)
       ELSE IF T3Condition(step)
         THEN Left(sent, res, <<i>>,
                   <<[ctx EXCEPT !.i = i, !.pc = "t3wait", !.due = t + T3Wait(step)]>>)
       ELSE Left(sent, res, <<i>>,
                 <<[ctx EXCEPT !.i = i, !.pc = "delay", !.due = t + simulateDelayMs(step)]>>)

\* The timeout branch without allPassed = false.
AfterT3WaitUnmarked(ctx, lg, res, t) ==
  LET step == ctx.scenario.steps[ctx.i + 1]
  IN Left(addLog(lg, t, "ERROR",
                 Summary("T3 Timeout: No response received within",
                         <<timeoutMs(step), simulateDelayMs(step)>>, <<>>),
                 EmptyDetail, "error"),
          res, <<ctx.i>>,
          <<[ctx EXCEPT !.pc = "t3pause", !.due = t + T3Pause]>>)

\* The timeout branch without its continue: the response code follows.
AfterT3WaitFallsThrough(ctx, lg, res, t) ==
  LET step == ctx.scenario.steps[ctx.i + 1]
  IN Left(addLog(lg, t, "ERROR",
                 Summary("T3 Timeout: No response received within",
                         <<timeoutMs(step), simulateDelayMs(step)>>, <<>>),
                 EmptyDetail, "error"),
          res, <<ctx.i>>,
          <<[ctx EXCEPT !.allPassed = FALSE, !.pc = "delay", !.due = t + T3Pause]>>)

\* Lines 130-136: after the wait of timeoutMs.
AfterT3Wait(ctx, lg, res, t) ==
  LET step == ctx.scenario.steps[ctx.i + 1]
  IN Left(addLog(lg, t, "ERROR",
                 Summary("T3 Timeout: No response received within",
                         <<timeoutMs(step), simulateDelayMs(step)>>, <<>>),
                 EmptyDetail, "error"),
          res, <<ctx.i>>,
          <<[ctx EXCEPT !.allPassed = FALSE, !.pc = "t3pause", !.due = t + T3Pause]>>)

\* Without the fallback mock: an expected response the table lacks is an error.
AfterDelayNoFallback(ctx, lg, res, t) ==
  LET step == ctx.scenario.steps[ctx.i + 1]
      msg == step.messageToSend
      expectedResponse == step.expectedResponseSxFy
      next == [ctx EXCEPT !.pc = "pause", !.due = t + StepPause]
  IN IF expectedResponse # <<>> /\ expectedResponse[1] \in MockKeys
       THEN Left(addLog(lg, t, "E->H", Summary("Response", <<>>, expectedResponse),
                        MOCK_RESPONSES(expectedResponse[1]), "success"),
                 res, <<ctx.i>>, <<next>>)
     ELSE IF expectedResponse # <<>>
       THEN Left(addLog(lg, t, "ERROR",
                        Summary("No Mock Response defined for", <<msg.stream, msg.function>>, <<>>),
                        EmptyDetail, "error"),
                 res, <<ctx.i>>, <<[next EXCEPT !.allPassed = FALSE]>>)
     ELSE IF msg.waitBit
       THEN Left(addLog(lg, t, "ERROR",
                        Summary("No Mock Response defined for", <<msg.stream, msg.function>>, <<>>),
                        EmptyDetail, "error"),
                 res, <<ctx.i>>, <<[next EXCEPT !.allPassed = FALSE]>>)
     ELSE Left(lg, res, <<ctx.i>>, <<next>>)

\* Without the test of waitBit: a step with no expected response is an error.
AfterDelayAlwaysDemands(ctx, lg, res, t) ==
  LET step == ctx.scenario.steps[ctx.i + 1]
      msg == step.messageToSend
      expectedResponse == step.expectedResponseSxFy
      next == [ctx EXCEPT !.pc = "pause", !.due = t + StepPause]
  IN IF expectedResponse # <<>> /\ expectedResponse[1] \in MockKeys
       THEN Left(addLog(lg, t, "E->H", Summary("Response", <<>>, expectedResponse),
                        MOCK_RESPONSES(expectedResponse[1]), "success"),
                 res, <<ctx.i>>, <<next>>)
     ELSE IF expectedResponse # <<>>
       THEN Left(addLog(lg, t, "E->H", Summary("Ack", <<>>, expectedResponse),
                        FallbackAck, "success"),
                 res, <<ctx.i>>, <<next>>)
     ELSE IF msg.waitBit \/ ~msg.waitBit
       THEN Left(addLog(lg, t, "ERROR",
                        Summary("No Mock Response defined for", <<msg.stream, msg.function>>, <<>>),
                        EmptyDetail, "error"),
                 res, <<ctx.i>>, <<[next EXCEPT !.allPassed = FALSE]>>)
     ELSE Left(lg, res, <<ctx.i>>, <<next>>)

\* Lines 143-163: after the wait of simulateDelayMs.
AfterDelay(ctx, lg, res, t) ==
  LET step == ctx.scenario.steps[ctx.i + 1]
      msg == step.messageToSend
      expectedResponse == step.expectedResponseSxFy
      next == [ctx EXCEPT !.pc = "pause", !.due = t + StepPause]
  IN IF expectedResponse # <<>> /\ expectedResponse[1] \in MockKeys
       THEN Left(addLog(lg, t, "E->H", Summary("Response", <<>>, expectedResponse),
                        MOCK_RESPONSES(expectedResponse[1]), "success"),
                 res, <<ctx.i>>, <<next>>)
     ELSE IF expectedResponse # <<>>
       THEN Left(addLog(lg, t, "E->H", Summary("Ack", <<>>, expectedResponse),
                        FallbackAck, "success"),
                 res, <<ctx.i>>, <<next>>)
     ELSE IF msg.waitBit
       THEN Left(addLog(lg, t, "ERROR",
                        Summary("No Mock Response defined for", <<msg.stream, msg.function>>, <<>>),
                        EmptyDetail, "error"),
                 res, <<ctx.i>>, <<[next EXCEPT !.allPassed = FALSE]>>)
     ELSE Left(lg, res, <<ctx.i>>, <<next>>)

\* break for continue at line 137: a timeout ends the loop.
ResumeBreakOnTimeout(ctx, lg, res, t) ==
  CASE ctx.pc = "t3wait" -> AfterT3Wait(ctx, lg, res, t)
    [] ctx.pc = "delay" -> AfterDelay(ctx, lg, res, t)
    [] ctx.pc = "t3pause" -> Verdict(ctx, ctx.allPassed, lg, res, t)
    [] ctx.pc = "pause" -> LoopFrom(ctx, ctx.i + 1, lg, res, t)

\* The stretch a call suspended at ctx.pc runs when its timer fires at t.
Resume(ctx, lg, res, t) ==
  CASE ctx.pc = "t3wait" -> AfterT3Wait(ctx, lg, res, t)
    [] ctx.pc = "delay" -> AfterDelay(ctx, lg, res, t)
    [] ctx.pc \in {"t3pause", "pause"} -> LoopFrom(ctx, ctx.i + 1, lg, res, t)

\* The guard left out.
BusyNever == FALSE

\* Line 79: the guard against a second run.
Busy == runningStep # <<>>

\* The validation check left out.
BlockedNever == FALSE

\* Line 82: the final validation check.
Blocked == DOMAIN validationErrors # {}

ToDigitsNat(n) ==
  LET d(k) == CHOOSE c \in Digits : DigitVal(c) = k
      F[m \in 0..n] == IF m < 10 THEN <<d(m)>> ELSE F[m \div 10] \o <<d(m % 10)>>
  IN F[n]

\* The text of a number, as a template literal prints it.
ToDigits(n) == IF n < 0 THEN <<"-">> \o ToDigitsNat(0 - n) ELSE ToDigitsNat(n)

\* The text of an error message.
ErrorText(e) == IF e.n = <<>> THEN <<e.msg>> ELSE <<e.msg, ": ">> \o ToDigits(e.n[1])

\* validationErrors as the object addLog serialises: its keys in the order
\* of the scenario's parameters.
RECURSIVE ErrorMembers(_, _)
ErrorMembers(pv, errs) ==
  IF pv = <<>> THEN <<>>
  ELSE (IF pv[1][1] \in DOMAIN errs
          THEN <<M(pv[1][1], JStr(ErrorText(errs[pv[1][1]])))>> ELSE <<>>)
       \o ErrorMembers(Tail(pv), errs)

\* The mutant of runScenario: resolving uses the parameter map up.
RunScenarioDrainsValues ==
  /\ activeTab = "scenarios"
  /\ selectedScenario # <<>>
  /\ IF Busy THEN UNCHANGED <<logs, results, runningStep, runs, nruns, nevents>>
     ELSE IF Blocked
       THEN /\ nevents < MaxEvents
            /\ nevents' = nevents + 1
            /\ logs' = addLog(logs, now, "ERROR",
                              Summary("Execution Blocked: Fix invalid parameters.", <<>>, <<>>),
                              JObj(ErrorMembers(paramValues, validationErrors)), "error")
            /\ UNCHANGED <<results, runningStep, runs, nruns>>
     ELSE /\ nruns < MaxRuns
          /\ LET scenario == selectedScenario[1]
                 ctx == [scenario |-> scenario, paramValues |-> paramValues, i |-> 0,
                         allPassed |-> TRUE, pc |-> "start", due |-> now]
                 started == addLog(logs, now, "INFO",
                                   Summary("Starting Scenario: ", <<>>, <<scenario.title>>),
                                   EmptyDetail, "info")
                 left == LoopFrom(ctx, 0, started, results, now)
             IN /\ logs' = left.logs
                /\ results' = left.results
                /\ runningStep' = left.runningStep
                /\ runs' = runs \o left.run
                /\ nruns' = nruns + 1
                /\ UNCHANGED nevents
  /\ paramValues' = IF Busy \/ Blocked THEN paramValues ELSE <<>>
  /\ UNCHANGED <<scenarios, selectedScenario, validationErrors, now>>
  /\ UNCHANGED reportVars

\* The mutant of runScenario: allPassed starts from the last verdict.
RunScenarioCarriesVerdict ==
  /\ activeTab = "scenarios"
  /\ selectedScenario # <<>>
  /\ IF Busy THEN UNCHANGED <<logs, results, runningStep, runs, nruns, nevents>>
     ELSE IF Blocked
       THEN /\ nevents < MaxEvents
            /\ nevents' = nevents + 1
            /\ logs' = addLog(logs, now, "ERROR",
                              Summary("Execution Blocked: Fix invalid parameters.", <<>>, <<>>),
                              JObj(ErrorMembers(paramValues, validationErrors)), "error")
            /\ UNCHANGED <<results, runningStep, runs, nruns>>
     ELSE /\ nruns < MaxRuns
          /\ LET scenario == selectedScenario[1]
                 ctx == [scenario |-> scenario, paramValues |-> paramValues, i |-> 0,
                         allPassed |-> (results = <<>> \/ results[1].passed), pc |-> "start", due |-> now]
                 started == addLog(logs, now, "INFO",
                                   Summary("Starting Scenario: ", <<>>, <<scenario.title>>),
                                   EmptyDetail, "info")
                 left == LoopFrom(ctx, 0, started, results, now)
             IN /\ logs' = left.logs
                /\ results' = left.results
                /\ runningStep' = left.runningStep
                /\ runs' = runs \o left.run
                /\ nruns' = nruns + 1
                /\ UNCHANGED nevents
  /\ UNCHANGED <<scenarios, selectedScenario, paramValues, validationErrors, now>>
  /\ UNCHANGED reportVars

\* The mutant of runScenario: allPassed starts false.
RunScenarioStartsFailed ==
  /\ activeTab = "scenarios"
  /\ selectedScenario # <<>>
  /\ IF Busy THEN UNCHANGED <<logs, results, runningStep, runs, nruns, nevents>>
     ELSE IF Blocked
       THEN /\ nevents < MaxEvents
            /\ nevents' = nevents + 1
            /\ logs' = addLog(logs, now, "ERROR",
                              Summary("Execution Blocked: Fix invalid parameters.", <<>>, <<>>),
                              JObj(ErrorMembers(paramValues, validationErrors)), "error")
            /\ UNCHANGED <<results, runningStep, runs, nruns>>
     ELSE /\ nruns < MaxRuns
          /\ LET scenario == selectedScenario[1]
                 ctx == [scenario |-> scenario, paramValues |-> paramValues, i |-> 0,
                         allPassed |-> FALSE, pc |-> "start", due |-> now]
                 started == addLog(logs, now, "INFO",
                                   Summary("Starting Scenario: ", <<>>, <<scenario.title>>),
                                   EmptyDetail, "info")
                 left == LoopFrom(ctx, 0, started, results, now)
             IN /\ logs' = left.logs
                /\ results' = left.results
                /\ runningStep' = left.runningStep
                /\ runs' = runs \o left.run
                /\ nruns' = nruns + 1
                /\ UNCHANGED nevents
  /\ UNCHANGED <<scenarios, selectedScenario, paramValues, validationErrors, now>>
  /\ UNCHANGED reportVars

\* runScenario(selectedScenario), from the call to its first await.
RunScenario ==
  /\ activeTab = "scenarios"
  /\ selectedScenario # <<>>
  /\ IF Busy THEN UNCHANGED <<logs, results, runningStep, runs, nruns, nevents>>
     ELSE IF Blocked
       THEN /\ nevents < MaxEvents
            /\ nevents' = nevents + 1
            /\ logs' = addLog(logs, now, "ERROR",
                              Summary("Execution Blocked: Fix invalid parameters.", <<>>, <<>>),
                              JObj(ErrorMembers(paramValues, validationErrors)), "error")
            /\ UNCHANGED <<results, runningStep, runs, nruns>>
     ELSE /\ nruns < MaxRuns
          /\ LET scenario == selectedScenario[1]
                 ctx == [scenario |-> scenario, paramValues |-> paramValues, i |-> 0,
                         allPassed |-> TRUE, pc |-> "start", due |-> now]
                 started == addLog(logs, now, "INFO",
                                   Summary("Starting Scenario: ", <<>>, <<scenario.title>>),
                                   EmptyDetail, "info")
                 left == LoopFrom(ctx, 0, started, results, now)
             IN /\ logs' = left.logs
                /\ results' = left.results
                /\ runningStep' = left.runningStep
                /\ runs' = runs \o left.run
                /\ nruns' = nruns + 1
                /\ UNCHANGED nevents
  /\ UNCHANGED <<scenarios, selectedScenario, paramValues, validationErrors, now>>
  /\ UNCHANGED reportVars

\* The call reading the parameter values of the latest render, not those of
\* the render it was made in.
TimerFiresLiveValues(r) ==
  /\ \A q \in DOMAIN runs : runs[q].due >= runs[r].due
  /\ \E left \in {Resume([runs[r] EXCEPT !.paramValues = paramValues], logs, results,
                          runs[r].due)} :
       /\ now' = runs[r].due
       /\ logs' = left.logs
       /\ results' = left.results
       /\ runningStep' = left.runningStep
       /\ runs' = IF left.run = <<>>
                    THEN SubSeq(runs, 1, r - 1) \o SubSeq(runs, r + 1, Len(runs))
                    ELSE [runs EXCEPT ![r] = left.run[1]]
  /\ UNCHANGED <<scenarios, selectedScenario, paramValues, validationErrors, nruns,
                 nevents>>
  /\ UNCHANGED reportVars

\* The call reading the scenario selected now, not the one it was given.
TimerFiresLiveScenario(r) ==
  /\ \A q \in DOMAIN runs : runs[q].due >= runs[r].due
  /\ \E left \in {Resume([runs[r] EXCEPT !.scenario = IF selectedScenario # <<>>
                                                       THEN selectedScenario[1] ELSE @],
                          logs, results, runs[r].due)} :
       /\ now' = runs[r].due
       /\ logs' = left.logs
       /\ results' = left.results
       /\ runningStep' = left.runningStep
       /\ runs' = IF left.run = <<>>
                    THEN SubSeq(runs, 1, r - 1) \o SubSeq(runs, r + 1, Len(runs))
                    ELSE [runs EXCEPT ![r] = left.run[1]]
  /\ UNCHANGED <<scenarios, selectedScenario, paramValues, validationErrors, nruns,
                 nevents>>
  /\ UNCHANGED reportVars

\* The timer a suspended call awaits fires: the clock is at its due time
\* and the call runs to its next await or to its end.
TimerFires(r) ==
  /\ \A q \in DOMAIN runs : runs[q].due >= runs[r].due
  /\ \E left \in {Resume(runs[r], logs, results, runs[r].due)} :
       /\ now' = runs[r].due
       /\ logs' = left.logs
       /\ results' = left.results
       /\ runningStep' = left.runningStep
       /\ runs' = IF left.run = <<>>
                    THEN SubSeq(runs, 1, r - 1) \o SubSeq(runs, r + 1, Len(runs))
                    ELSE [runs EXCEPT ![r] = left.run[1]]
  /\ UNCHANGED <<scenarios, selectedScenario, paramValues, validationErrors, nruns,
                 nevents>>
  /\ UNCHANGED reportVars

\* ------------------------------------------------------ the other handlers

NoErrors == [k \in {} |-> NoError]

\* Lines 24-33: the effect of a change of selectedScenario.
Defaults(params) == [j \in DOMAIN params |-> <<params[j].key, params[j].defaultValue>>]

\* What the user can enter: the values tried for a text input and for a
\* number input (which hands over "" or the text of a number), and the
\* options of a select.
TextInputs == {<<>>, <<"Lot7">>, <<"{", "{", "OBJID", "}", "}">>, <<Q>>}
NumberInputs == {<<>>, <<"5">>, <<"-", "1">>}
TriedOptions == {<<"Equipment">>}

Inputs(param) ==
  IF param.type = "ENUM" /\ param.options # {} THEN param.options \cap TriedOptions
  ELSE IF param.type = "NUMBER" THEN NumberInputs
  ELSE TextInputs

\* The scenarios the model selects.
SelectableIds == {"e9-timeout", "e142-trace-setup", "imp-limits"}

\* onSelect={setSelectedScenario} with a scenario of the catalog, and the
\* effect of lines 24-33 that follows the change.
Select(j) ==
  /\ activeTab = "scenarios"
  /\ scenarios[j].id \in SelectableIds
  /\ selectedScenario # <<scenarios[j]>>
  /\ nevents < MaxEvents
  /\ nevents' = nevents + 1
  /\ selectedScenario' = <<scenarios[j]>>
  /\ paramValues' = Defaults(scenarios[j].parameters)
  /\ validationErrors' = NoErrors
  /\ UNCHANGED <<scenarios, logs, results, runningStep, runs, now, nruns>>
  /\ UNCHANGED reportVars

\* {...prev, [key]: value}: an existing key keeps its place.
SetEntry(pv, key, value) ==
  IF \E j \in DOMAIN pv : pv[j][1] = key
    THEN [j \in DOMAIN pv |-> IF pv[j][1] = key THEN <<key, value>> ELSE pv[j]]
    ELSE Append(pv, <<key, value>>)

\* The error map built anew from the one result: the other keys are dropped.
SetErrorAlone(errs, key, error) ==
  IF error # NoError THEN [k \in {key} |-> error] ELSE NoErrors

\* Lines 54-62: the error map after validating key.
SetError(errs, key, error) ==
  IF error # NoError
    THEN [k \in DOMAIN errs \cup {key} |-> IF k = key THEN error ELSE errs[k]]
    ELSE [k \in DOMAIN errs \ {key} |-> errs[k]]

\* handleParamChange(param, value), for an input of the selected scenario.
ParamChange(j, value) ==
  /\ activeTab = "scenarios"
  /\ nevents < MaxEvents
  /\ nevents' = nevents + 1
  /\ LET param == selectedScenario[1].parameters[j]
     IN /\ value \in Inputs(param)
        /\ paramValues' = SetEntry(paramValues, param.key, value)
        /\ validationErrors' = SetError(validationErrors, param.key,
                                        validateParameter(param, value))
  /\ UNCHANGED <<scenarios, selectedScenario, logs, results, runningStep, runs,
                 now, nruns>>
  /\ UNCHANGED reportVars

\* clearLogs.
ClearLogs ==
  /\ logs # <<>> \/ results # <<>>
  /\ nevents < MaxEvents
  /\ nevents' = nevents + 1
  /\ logs' = <<>>
  /\ results' = <<>>
  /\ UNCHANGED <<scenarios, selectedScenario, runningStep, paramValues,
                 validationErrors, runs, now, nruns>>
  /\ UNCHANGED reportVars

\* handleExportScenarios: the download, then its log entry.
Export ==
  /\ activeTab = "scenarios"
  /\ nevents < MaxEvents
  /\ nevents' = nevents + 1
  /\ logs' = addLog(logs, now, "INFO", Summary("Scenarios exported successfully.", <<>>, <<>>),
                    EmptyDetail, "success")
  /\ UNCHANGED <<scenarios, selectedScenario, results, runningStep, paramValues,
                 validationErrors, runs, now, nruns>>
  /\ UNCHANGED reportVars

\* An imported scenario: a number parameter whose default is below its
\* minimum, a step that asks for no reply, and a step that asks for one,
\* declares no expected response and names a placeholder no parameter has.
ImpLimits ==
  Scenario("imp-limits", "Imported: limits",
    << Param("LIMIT", "NUMBER", <<"-", "1">>, <<0>>, <<9>>) >>,
    << Step("Set limit",
            Msg(2, 15, FALSE, "Set Limit", JObj(<<M("V", P("LIMIT"))>>)),
            <<>>, <<>>, <<>>),
       Step("Read back",
            Msg(2, 13, TRUE, "Read Limit", JObj(<<M("ID", P("MISSING"))>>)),
            <<>>, <<>>, <<>>) >>)

\* An element of an imported array that is no scenario: {"id": "imp-broken",
\* "title": "Broken"}, with no steps.
ImpBroken == [id |-> "imp-broken", title |-> "Broken"]

\* The files the user picks: text that is no JSON, JSON that is no array,
\* an array of one scenario, and an array whose element is no scenario.
ImportFiles ==
  { [parses |-> FALSE, isArray |-> FALSE, imported |-> <<>>],
    [parses |-> TRUE, isArray |-> FALSE, imported |-> <<>>],
    [parses |-> TRUE, isArray |-> TRUE, imported |-> <<ImpLimits>>],
    [parses |-> TRUE, isArray |-> TRUE, imported |-> <<ImpBroken>>] }

\* The import without the Array.isArray test: whatever parses replaces the
\* catalog.
ImportUnchecked(file) ==
  /\ activeTab = "scenarios"
  /\ nevents < MaxEvents
  /\ nevents' = nevents + 1
  /\ IF file.parses
       THEN /\ scenarios' = file.imported
            /\ selectedScenario' = <<>>
            /\ paramValues' = IF selectedScenario = <<>> THEN paramValues ELSE <<>>
            /\ validationErrors' =
                 IF selectedScenario = <<>> THEN validationErrors ELSE NoErrors
            /\ logs' = addLog(logs, now, "INFO",
                              Summary("Imported scenarios successfully.",
                                      <<Len(file.imported)>>, <<>>),
                              EmptyDetail, "success")
     ELSE /\ logs' = addLog(logs, now, "ERROR",
                            Summary("Import failed: Could not parse JSON.", <<>>, <<>>),
                            JObj(<<M("error", S("SyntaxError"))>>), "error")
          /\ UNCHANGED <<scenarios, selectedScenario, paramValues, validationErrors>>
  /\ UNCHANGED <<results, runningStep, runs, now, nruns>>
  /\ UNCHANGED reportVars

\* reader.onload of handleImportScenarios, and the effect of lines 24-33
\* when the selection changes to null.
Import(file) ==
  /\ activeTab = "scenarios"
  /\ nevents < MaxEvents
  /\ nevents' = nevents + 1
  /\ IF file.parses /\ file.isArray
       THEN /\ scenarios' = file.imported
            /\ selectedScenario' = <<>>
            /\ paramValues' = IF selectedScenario = <<>> THEN paramValues ELSE <<>>
            /\ validationErrors' =
                 IF selectedScenario = <<>> THEN validationErrors ELSE NoErrors
            /\ logs' = addLog(logs, now, "INFO",
                              Summary("Imported scenarios successfully.",
                                      <<Len(file.imported)>>, <<>>),
                              EmptyDetail, "success")
     ELSE IF file.parses
       THEN /\ logs' = addLog(logs, now, "ERROR",
                              Summary("Import failed: Invalid JSON format. Expected an array.",
                                      <<>>, <<>>),
                              EmptyDetail, "error")
            /\ UNCHANGED <<scenarios, selectedScenario, paramValues, validationErrors>>
     ELSE /\ logs' = addLog(logs, now, "ERROR",
                            Summary("Import failed: Could not parse JSON.", <<>>, <<>>),
                            JObj(<<M("error", S("SyntaxError"))>>), "error")
          /\ UNCHANGED <<scenarios, selectedScenario, paramValues, validationErrors>>
  /\ UNCHANGED <<results, runningStep, runs, now, nruns>>
  /\ UNCHANGED reportVars

\* ------------------------------------------------------ the specification

\* The scenarios tab is shown, the report panel is not mounted, nothing was
\* written to the console, and the build has an API key.
PanelInit ==
  /\ activeTab = "scenarios"
  /\ report = <<>>
  /\ loading = FALSE
  /\ apiKey = TRUE
  /\ console = <<>>

\* The state after App's first render.
Init ==
  /\ scenarios = TEST_SCENARIOS
  /\ selectedScenario = <<>>
  /\ logs = <<>>
  /\ results = <<>>
  /\ runningStep = <<>>
  /\ paramValues = <<>>
  /\ validationErrors = NoErrors
  /\ runs = <<>>
  /\ now = 0
  /\ nruns = 0
  /\ nevents = 0
  /\ PanelInit

Next ==
  \/ RunScenario
  \/ \E r \in DOMAIN runs : TimerFires(r)
  \/ \E j \in DOMAIN scenarios : Select(j)
  \/ \E j \in DOMAIN paramValues : \E value \in TextInputs \cup NumberInputs \cup TriedOptions :
       selectedScenario # <<>> /\ ParamChange(j, value)
  \/ ClearLogs
  \/ Export
  \/ \E file \in ImportFiles : Import(file)

Spec == Init /\ [][Next]_vars

\* ------------------------------------------- one run of any scenario

\* The steps tried: every combination of a reply-expected flag, an expected
\* response (none, one MOCK_RESPONSES has, one it lacks) and a timing (no
\* delay and no timeout declared; the default delay over a declared
\* timeout; a delay equal to the timeout; a declared delay over the default
\* timeout), and one step whose body names the parameter K.
ExpectedShapes == {<<>>, <<"S14F2">>, <<"S1F2">>}
TimingShapes == {<< <<>>, <<>> >>, << <<>>, <<500>> >>, << <<500>>, <<500>> >>,
                 << <<12000>>, <<>> >>}

StepShapes ==
  { Step("step", Msg(1, 1, w, "Probe", JObj(<<>>)), e, tm[1], tm[2]) :
      w \in BOOLEAN, e \in ExpectedShapes, tm \in TimingShapes }
  \cup { Step("templated", Msg(1, 3, TRUE, "Templated", JObj(<<M("ID", P("K"))>>)),
              <<"S14F2">>, <<>>, <<>>) }

\* The values of K tried: one that resolves and one that breaks the JSON.
StepValues == {<<"Lot7">>, <<Q>>}

Generated(steps, value) ==
  Scenario("generated", "Generated", <<Param("K", "STRING", value, <<>>, <<>>)>>, steps)

\* An imported scenario is selected, the session is cleared, and the bound
\* on runs leaves one run.
InitOf(shapes, values) ==
  \E n \in 0..MaxSteps : \E steps \in [1..n -> shapes] : \E value \in values :
    /\ scenarios = <<Generated(steps, value)>>
    /\ selectedScenario = <<Generated(steps, value)>>
    /\ logs = <<>>
    /\ results = <<>>
    /\ runningStep = <<>>
    /\ paramValues = Defaults(Generated(steps, value).parameters)
    /\ validationErrors = NoErrors
    /\ runs = <<>>
    /\ now = 0
    /\ nruns = MaxRuns - 1
    /\ nevents = 0
    /\ PanelInit

InitSteps == InitOf(StepShapes, StepValues)

NextSteps ==
  \/ RunScenario
  \/ \E r \in DOMAIN runs : TimerFires(r)

SpecSteps == InitSteps /\ [][NextSteps]_vars

\* One run of a scenario that declares no parameter: the steps of StepShapes
\* whose body names none.
PlainShapes == {step \in StepShapes : step.name = "step"}

Plain(steps) == Scenario("plain", "Plain", <<>>, steps)

InitPlain ==
  \E n \in 0..MaxSteps : \E steps \in [1..n -> PlainShapes] :
    /\ scenarios = <<Plain(steps)>>
    /\ selectedScenario = <<Plain(steps)>>
    /\ logs = <<>>
    /\ results = <<>>
    /\ runningStep = <<>>
    /\ paramValues = Defaults(Plain(steps).parameters)
    /\ validationErrors = NoErrors
    /\ runs = <<>>
    /\ now = 0
    /\ nruns = MaxRuns - 1
    /\ nevents = 0
    /\ PanelInit

SpecPlain == InitPlain /\ [][NextSteps]_vars

\* The steps of SpecLive: one of each outcome (acknowledged by a mock reply,
\* timed out, no reply asked, a reply asked and none declared, a template
\* that may fail to resolve).
LiveShapes ==
  { Step("step", Msg(1, 1, TRUE, "Probe", JObj(<<>>)), <<"S14F2">>, <<>>, <<>>),
    Step("step", Msg(1, 1, TRUE, "Probe", JObj(<<>>)), <<"S14F2">>, <<>>, <<500>>),
    Step("step", Msg(1, 1, FALSE, "Probe", JObj(<<>>)), <<>>, <<>>, <<>>),
    Step("step", Msg(1, 1, TRUE, "Probe", JObj(<<>>)), <<>>, <<>>, <<>>),
    Step("templated", Msg(1, 3, TRUE, "Templated", JObj(<<M("ID", P("K"))>>)),
         <<"S14F2">>, <<>>, <<>>) }

InitLive == InitOf(LiveShapes, StepValues)

\* A timer that is set fires: the event loop runs every setTimeout callback.
SpecLive ==
  InitLive /\ [][NextSteps]_vars /\ WF_vars(\E r \in DOMAIN runs : TimerFires(r))

\* ------------------------------------------------------- the report panel

\* The object generateTestReport returns from its catch.
FallbackReport ==
  JObj(<<M("summary", JStr(<<"Failed to generate AI report.">>)),
         M("anomalies", JArr(<<JStr(<<"API connection failed">>)>>)),
         M("recommendations", JArr(<<JStr(<<"Check network settings">>)>>))>>)

\* What generateContent may do: reject, or resolve with a response whose
\* text is empty, is cut short, or is the JSON of a report.
ReportText ==
  <<"{", Q, "summary", Q, ":", Q, "Session nominal.", Q, ",",
         Q, "anomalies", Q, ":", "[", "]", ",",
         Q, "recommendations", Q, ":", "[", "]", "}">>

Outcomes ==
  {[rejects |-> TRUE, text |-> <<>>]}
  \cup {[rejects |-> FALSE, text |-> text] : text \in {<<>>, <<"{", Q, "summary">>, ReportText}}

\* Lines 35-52 of generateTestReport: the awaited call, JSON.parse of
\* response.text || "{}", and the catch around both.  threw says whether the
\* catch ran.
ParseResponse(outcome) ==
  IF outcome.rejects THEN [threw |-> TRUE, val |-> FallbackReport]
  ELSE Only({ IF parsed.ok THEN [threw |-> FALSE, val |-> parsed.val]
                           ELSE [threw |-> TRUE, val |-> FallbackReport]
              : parsed \in {JSONparse(IF outcome.text = <<>> THEN <<"{", "}">>
                                                            ELSE outcome.text)} })

\* setActiveTab(tab): ReportPanel is mounted on the reports tab only, so a
\* change of tab starts its state afresh and a call it awaited is dropped.
SetActiveTab(tab) ==
  /\ tab # activeTab
  /\ activeTab' = tab
  /\ report' = <<>>
  /\ loading' = FALSE
  /\ UNCHANGED <<scenarios, selectedScenario, logs, results, runningStep, paramValues,
                 validationErrors, runs, now, nruns, nevents, apiKey, console>>

\* handleGenerateAI, from the click to its await.  Without an API key
\* generateTestReport throws before its try: the promise is rejected at
\* once, the handler's catch writes the error to the console and its
\* finally resets loading before any other event is handled.
GenerateReport ==
  /\ activeTab = "reports"
  /\ ~loading
  /\ logs # <<>>
  /\ nevents < MaxEvents
  /\ nevents' = nevents + 1
  /\ IF apiKey
       THEN loading' = TRUE /\ UNCHANGED console
       ELSE loading' = FALSE /\ console' = Append(console, "API Key not found")
  /\ UNCHANGED <<scenarios, selectedScenario, logs, results, runningStep, paramValues,
                 validationErrors, runs, now, nruns, activeTab, report, apiKey>>

\* The awaited generateContent call settles and handleGenerateAI runs to its
\* end: setReport(result), then setLoading(false).
ReportSettles(outcome) ==
  /\ loading
  /\ \E result \in {ParseResponse(outcome)} :
       /\ report' = <<result.val>>
       /\ console' = IF result.threw THEN Append(console, "Gemini API Error:")
                                     ELSE console
  /\ loading' = FALSE
  /\ UNCHANGED <<scenarios, selectedScenario, logs, results, runningStep, paramValues,
                 validationErrors, runs, now, nruns, nevents, activeTab, apiKey>>

\* A session with the report panel: a build with or without an API key.
InitReport ==
  /\ scenarios = TEST_SCENARIOS
  /\ selectedScenario = <<>>
  /\ logs = <<>>
  /\ results = <<>>
  /\ runningStep = <<>>
  /\ paramValues = <<>>
  /\ validationErrors = NoErrors
  /\ runs = <<>>
  /\ now = 0
  /\ nruns = 0
  /\ nevents = 0
  /\ activeTab = "scenarios"
  /\ report = <<>>
  /\ loading = FALSE
  /\ apiKey \in BOOLEAN
  /\ console = <<>>

NextReport ==
  \/ RunScenario
  \/ \E r \in DOMAIN runs : TimerFires(r)
  \/ \E j \in DOMAIN scenarios : Select(j)
  \/ ClearLogs
  \/ \E tab \in {"scenarios", "reports"} : SetActiveTab(tab)
  \/ GenerateReport
  \/ \E outcome \in Outcomes : ReportSettles(outcome)

SpecReport == InitReport /\ [][NextReport]_vars

\* ------------------------------------------------- editing the parameters

\* The texts handed to handleParamChange for a number parameter (nothing, a
\* blank, a word, and numbers at, inside and outside the declared bounds)
\* and for a text parameter.
EnteredNumbers ==
  { <<>>, <<" ">>, <<"abc">>, <<"-", "1">>, <<"0">>, <<"9">>, <<"1", "0", "0">>,
    <<"9", "9", "9", "9">>, <<"1", "0", "0", "0", "0">> }
EnteredTexts == {<<>>, <<"Lot7">>}

Entered(param) ==
  IF param.type = "ENUM" /\ param.options # {} THEN param.options \cap TriedOptions
  ELSE IF param.type = "NUMBER" THEN EnteredNumbers
  ELSE EnteredTexts

\* handleParamChange(param, value) with an entered text.
ParamEntry(j, value) ==
  /\ activeTab = "scenarios"
  /\ nevents < MaxEvents
  /\ nevents' = nevents + 1
  /\ LET param == selectedScenario[1].parameters[j]
     IN /\ value \in Entered(param)
        /\ paramValues' = SetEntry(paramValues, param.key, value)
        /\ validationErrors' = SetError(validationErrors, param.key,
                                        validateParameter(param, value))
  /\ UNCHANGED <<scenarios, selectedScenario, logs, results, runningStep, runs,
                 now, nruns>>
  /\ UNCHANGED reportVars

\* A session of edits: the built-in catalog or an imported one, with one of
\* its scenarios that declare parameters selected.
InitParams ==
  \E catalog \in {TEST_SCENARIOS, <<ImpLimits>>} :
    \E j \in {i \in DOMAIN catalog : catalog[i].parameters # <<>>} :
      /\ scenarios = catalog
      /\ selectedScenario = <<catalog[j]>>
      /\ logs = <<>>
      /\ results = <<>>
      /\ runningStep = <<>>
      /\ paramValues = Defaults(catalog[j].parameters)
      /\ validationErrors = NoErrors
      /\ runs = <<>>
      /\ now = 0
      /\ nruns = 0
      /\ nevents = 0
      /\ PanelInit

NextParams ==
  \/ \E j \in DOMAIN paramValues : \E value \in EnteredNumbers \cup EnteredTexts \cup TriedOptions :
       ParamEntry(j, value)
  \/ \E j \in DOMAIN scenarios : Select(j)

SpecParams == InitParams /\ [][NextParams]_vars

\* ------------------------------------------- two runs with the same values

\* The generated scenario is selected and the bound on runs leaves two runs;
\* nothing edits the parameter between them.
InitTwice ==
  \E n \in 1..MaxSteps : \E steps \in [1..n -> LiveShapes] : \E value \in StepValues :
    /\ scenarios = <<Generated(steps, value)>>
    /\ selectedScenario = <<Generated(steps, value)>>
    /\ logs = <<>>
    /\ results = <<>>
    /\ runningStep = <<>>
    /\ paramValues = Defaults(Generated(steps, value).parameters)
    /\ validationErrors = NoErrors
    /\ runs = <<>>
    /\ now = 0
    /\ nruns = MaxRuns - 2
    /\ nevents = 0
    /\ PanelInit

SpecTwice == InitTwice /\ [][NextSteps]_vars

\* ------------------------------------------------- edits during a run

\* e142-obj-services, whose three steps all name parameters, is selected;
\* the bounds leave one run and two other events.
InitEdits ==
  /\ scenarios = TEST_SCENARIOS
  /\ selectedScenario = <<E142ObjServices>>
  /\ logs = <<>>
  /\ results = <<>>
  /\ runningStep = <<>>
  /\ paramValues = Defaults(E142ObjServices.parameters)
  /\ validationErrors = NoErrors
  /\ runs = <<>>
  /\ now = 0
  /\ nruns = MaxRuns - 1
  /\ nevents = MaxEvents - 2
  /\ PanelInit

NextEdits ==
  \/ RunScenario
  \/ \E r \in DOMAIN runs : TimerFires(r)
  \/ \E j \in DOMAIN scenarios : Select(j)
  \/ \E j \in DOMAIN paramValues : \E value \in TextInputs \cup NumberInputs \cup TriedOptions :
       selectedScenario # <<>> /\ ParamChange(j, value)

SpecEdits == InitEdits /\ [][NextEdits]_vars

\* ------------------------------------------------- reading the transcript

IsSend(e) == e.direction = "H->E"
IsReply(e) == e.direction = "E->H"
IsT3(e) ==
  e.direction = "ERROR" /\ e.summary.text = "T3 Timeout: No response received within"
IsNoMock(e) == e.direction = "ERROR" /\ e.summary.text = "No Mock Response defined for"
IsParseFail(e) ==
  e.direction = "ERROR" /\ e.summary.text = "Failed to parse message body for "

Sends == {k \in DOMAIN logs : IsSend(logs[k])}
Replies == {k \in DOMAIN logs : IsReply(logs[k])}
T3s == {k \in DOMAIN logs : IsT3(logs[k])}
ParseFails == {k \in DOMAIN logs : IsParseFail(logs[k])}

\* In SpecSteps and SpecLive one scenario is run, once: the k-th send of the
\* transcript is the send of its k-th step.
TheSteps == selectedScenario[1].steps
StepOfSend(k) == TheSteps[Cardinality({j \in Sends : j <= k})]
Finished == runs = <<>> /\ results # <<>>

\* The claims' reading of a step, in the words of the specification.
ClaimDelay(step) == IF step.simulateDelay = <<>> THEN 600 ELSE step.simulateDelay[1]
ClaimBudget(step) == IF step.timeout = <<>> THEN 10000 ELSE step.timeout[1]
ClaimTimesOut(step) == step.messageToSend.waitBit /\ ClaimDelay(step) > ClaimBudget(step)
ClaimResolves(step) == resolveBody(step.messageToSend.body, paramValues).ok
ClaimAcknowledged(step) ==
  ClaimResolves(step) /\ ~ClaimTimesOut(step) /\ step.expectedResponseSxFy # <<>>
ClaimNeutral(step) ==
  /\ ClaimResolves(step) /\ ~ClaimTimesOut(step)
  /\ step.expectedResponseSxFy = <<>> /\ ~step.messageToSend.waitBit
ClaimNoOracle(step) ==
  /\ ClaimResolves(step) /\ ~ClaimTimesOut(step)
  /\ step.expectedResponseSxFy = <<>> /\ step.messageToSend.waitBit

\* -------------------------------------------------------------- the claims

C2_RunsEndWithOneVerdict ==
  /\ [](Len(results) + Len(runs) = nruns - (MaxRuns - 1))
  /\ (runningStep # <<>>) ~> (runningStep = <<>> /\ runs = <<>>)

\* A run with a failed step has ended: Idle, with its verdict.
C2_Witness ==
  /\ Finished /\ runningStep = <<>> /\ Len(results) = 1
  /\ ~results[1].passed /\ Len(TheSteps) = MaxSteps

\* C3: the verdict is passed exactly when every step of the scenario ended
\* acknowledged or neutral, and while the run is in progress allPassed is
\* true exactly when every step completed so far did, so a failure once
\* recorded is never undone.
C3_PassedIffAllAcknowledged ==
  /\ Finished =>
       (results[1].passed <=>
          \A j \in DOMAIN TheSteps : ClaimAcknowledged(TheSteps[j]) \/ ClaimNeutral(TheSteps[j]))
  /\ \A r \in DOMAIN runs :
       LET done == IF runs[r].pc \in {"pause", "t3pause"} THEN runs[r].i + 1 ELSE runs[r].i
       IN runs[r].allPassed <=>
            \A j \in 1..done : ClaimAcknowledged(TheSteps[j]) \/ ClaimNeutral(TheSteps[j])

\* A run whose first step asked for a reply nobody declared and whose last
\* step was acknowledged has ended.
C3_Witness ==
  /\ Finished /\ Len(TheSteps) >= 2
  /\ ClaimNoOracle(TheSteps[1])
  /\ ClaimAcknowledged(TheSteps[Len(TheSteps)])

\* C4: the entry after a step's send is the T3 timeout error exactly when the
\* step is reply-expected and its delay (600 when absent) is strictly greater
\* than its timeout (10000 when absent); a timeout error follows nothing but
\* a send.
C4_TimedOutIff ==
  /\ \A k \in Sends :
       k < Len(logs) => (IsT3(logs[k + 1]) <=> ClaimTimesOut(StepOfSend(k)))
  /\ \A k \in T3s : k > 1 /\ IsSend(logs[k - 1])

\* A run has ended in which one step timed out and a reply-expected step
\* with its delay equal to its timeout was sent and did not.
C4_Witness ==
  /\ Finished /\ T3s # {}
  /\ \E k \in Sends :
       /\ StepOfSend(k).messageToSend.waitBit
       /\ StepOfSend(k).simulateDelay = StepOfSend(k).timeout
       /\ StepOfSend(k).timeout # <<>>
       /\ ~IsT3(logs[k + 1])

\* C5: the timeout error of a step is emitted exactly its timeout budget
\* after its send, and no equipment-to-host entry follows it for that step.
C5_TimeoutWaitsBudget ==
  \A k \in T3s :
    /\ k > 1 /\ IsSend(logs[k - 1])
    /\ logs[k].timestamp - logs[k - 1].timestamp = ClaimBudget(StepOfSend(k - 1))
    /\ k < Len(logs) => ~IsReply(logs[k + 1])

\* A step whose declared delay is over the default budget has timed out and
\* the run has gone on.
C5_Witness ==
  \E k \in T3s :
    /\ k < Len(logs)
    /\ StepOfSend(k - 1).simulateDelay # <<>>
    /\ ClaimDelay(StepOfSend(k - 1)) # ClaimBudget(StepOfSend(k - 1))

\* C6: a timed-out step or a step with no mock reply does not abort the run:
\* when every template resolves, a run that has ended has sent every step;
\* with exactly one step timed out and the others acknowledged the verdict is
\* failed and the transcript holds N sends and N reply or timeout entries.
C6_NoAbortOnTimeout ==
  Finished /\ (\A j \in DOMAIN TheSteps : ClaimResolves(TheSteps[j])) =>
    /\ Cardinality(Sends) = Len(TheSteps)
    /\ ( /\ Cardinality({j \in DOMAIN TheSteps : ClaimTimesOut(TheSteps[j])}) = 1
         /\ \A j \in DOMAIN TheSteps :
              ClaimTimesOut(TheSteps[j]) \/ ClaimAcknowledged(TheSteps[j]) )
       => /\ ~results[1].passed
          /\ Cardinality(Replies \cup T3s) = Len(TheSteps)
          /\ Len(logs) = 2 * Len(TheSteps) + 2

\* A run whose first step timed out and whose other steps were acknowledged
\* has ended.
C6_Witness ==
  /\ Finished /\ Len(TheSteps) >= 2
  /\ ClaimTimesOut(TheSteps[1])
  /\ \A j \in 2..Len(TheSteps) : ClaimAcknowledged(TheSteps[j])

\* The first step whose template does not resolve, 0 when all resolve.
FirstUnresolved ==
  IF \A j \in DOMAIN TheSteps : ClaimResolves(TheSteps[j]) THEN 0
  ELSE CHOOSE j \in DOMAIN TheSteps :
         ~ClaimResolves(TheSteps[j]) /\ \A h \in 1..(j - 1) : ClaimResolves(TheSteps[h])

\* C7: a step whose template fails to resolve is not sent and no later step
\* is; the run emits one error entry for it and ends at once, Idle, with a
\* failed verdict.
C7_AbortOnMalformedTemplate ==
  /\ FirstUnresolved # 0 => Cardinality(Sends) < FirstUnresolved
  /\ Finished /\ FirstUnresolved # 0 =>
       /\ Cardinality(Sends) = FirstUnresolved - 1
       /\ Cardinality(ParseFails) = 1
  /\ ParseFails # {} =>
       /\ Finished /\ runningStep = <<>> /\ ~results[1].passed
       /\ IsParseFail(logs[Len(logs) - 1])
       /\ logs[Len(logs)].summary.s = <<"FAILED">>

\* A run has ended on a template that did not resolve, after a step that
\* was sent and before a step that was not.
C7_Witness ==
  /\ ParseFails # {} /\ Finished
  /\ FirstUnresolved = 2 /\ Len(TheSteps) >= 2

\* The entry is the host-to-equipment entry of the step.
IsSendOf(e, step) ==
  /\ IsSend(e)
  /\ e.summary.a = <<step.messageToSend.stream, step.messageToSend.function>>
  /\ e.summary.s = <<step.messageToSend.name,
                     IF step.messageToSend.waitBit THEN "[W]" ELSE "">>

\* The entry is one a step emits after its send: a reply, a timeout error
\* or the error of a reply nobody declared.
IsAfterSend(e) == IsReply(e) \/ IsT3(e) \/ IsNoMock(e)

\* C11: the steps run in declaration order, one at a time: the k-th
\* host-to-equipment entry is that of step k, the reply, timeout or error
\* entry of a step comes right after its own send (so before the next
\* step's send), a run in flight has sent exactly the steps up to its
\* current one, and the entries' times never go back.
C11_StepsInOrder ==
  /\ Cardinality(Sends) <= Len(TheSteps)
  /\ \A k \in Sends : IsSendOf(logs[k], StepOfSend(k))
  /\ \A k \in DOMAIN logs : IsAfterSend(logs[k]) => k > 1 /\ IsSend(logs[k - 1])
  /\ \A k \in Replies :
       logs[k].summary.s = StepOfSend(k - 1).expectedResponseSxFy
  /\ \A r \in DOMAIN runs : Cardinality(Sends) = runs[r].i + 1
  /\ \A k \in DOMAIN logs : k > 1 => logs[k - 1].timestamp <= logs[k].timestamp

\* A run of two steps that differ in their send entries has ended, each
\* step with its reply.
C11_Witness ==
  /\ Finished /\ Len(TheSteps) = 2 /\ Len(logs) = 6
  /\ ~IsSendOf(logs[2], TheSteps[2])
  /\ IsReply(logs[3]) /\ IsReply(logs[5])

\* C12: a step that is sent has one host-to-equipment entry and at most one
\* entry more: what follows a send is the step's one reply or error entry
\* and then another step's entry or the run's last entry, or that at once.
C12_OneSendAtMostOneMore ==
  /\ \A r \in DOMAIN runs : Cardinality(Sends) = runs[r].i + 1
  /\ Finished => Cardinality(Sends) <= Len(TheSteps)
  /\ \A k \in Sends : \A j \in DOMAIN logs :
       j > k + 1 /\ IsAfterSend(logs[j]) => \E h \in (k + 1)..(j - 1) : IsSend(logs[h])

\* A run has ended in which one step got its timeout error and another its
\* reply.
C12_Witness ==
  /\ Finished /\ T3s # {} /\ Replies # {}
  /\ Cardinality(Sends) = 2

\* C13: in a run of a scenario with no parameter that has ended, a step that
\* asks for no reply has its host-to-equipment entry and no other, whether
\* or not it declares an expected response, and a reply-expected step whose
\* expected response the oracle has (and that does not time out) has its
\* host-to-equipment entry and its equipment-to-host entry.
C13_ZeroParameterEntries ==
  Finished /\ TheSteps # <<>> /\ selectedScenario[1].parameters = <<>> =>
    \A k \in Sends :
      /\ ~StepOfSend(k).messageToSend.waitBit => ~IsAfterSend(logs[k + 1])
      /\ ( /\ StepOfSend(k).messageToSend.waitBit
           /\ StepOfSend(k).expectedResponseSxFy # <<>>
           /\ StepOfSend(k).expectedResponseSxFy[1] \in MockKeys
           /\ ~ClaimTimesOut(StepOfSend(k)) )
         => IsReply(logs[k + 1])

\* What a call in flight leaves when only its own timers fire until it
\* returns.
RECURSIVE RunOut(_, _, _)
RunOut(ctx, lg, res) ==
  Only({ IF left.run = <<>> THEN left ELSE RunOut(left.run[1], left.logs, left.results)
         : left \in {Resume(ctx, lg, res, ctx.due)} })

SendsIn(lg) == Cardinality({k \in DOMAIN lg : IsSend(lg[k])})

\* The call in flight initiates no new step and ends with a failed verdict.
StopsHere ==
  /\ runs # <<>>
  /\ LET end == RunOut(runs[1], logs, results)
     IN SendsIn(end.logs) = SendsIn(logs) /\ ~end.results[1].passed

\* C14: a run in progress can be cancelled: while a run has steps left to
\* initiate, some operation of the program leads to a state from which the
\* run initiates no new step and ends, Idle, with a failed verdict.
C14_RunCanBeCancelled ==
  \A r \in DOMAIN runs :
    runs[r].i + 1 < Len(runs[r].scenario.steps) =>
      ENABLED (Next /\ IF runs' = <<>>
                         THEN /\ SendsIn(logs') = SendsIn(logs)
                              /\ runningStep' = <<>>
                              /\ results' # <<>> /\ ~results'[1].passed
                         ELSE StopsHere')

\* The entry reports a failed import.
IsImportFailure(e) ==
  /\ e.direction = "ERROR"
  /\ e.summary.text \in {"Import failed: Invalid JSON format. Expected an array.",
                         "Import failed: Could not parse JSON."}

\* C15: the import of a file that does not parse, or that parses to
\* something that is no array, leaves the catalog and the selected scenario
\* as they were and appends one error entry to the transcript.
C15_BadImportKeepsCatalog ==
  [][\A file \in ImportFiles :
       ~(file.parses /\ file.isArray) /\ Import(file) =>
         /\ scenarios' = scenarios
         /\ selectedScenario' = selectedScenario
         /\ Len(logs') = Len(logs) + 1
         /\ SubSeq(logs', 1, Len(logs)) = logs
         /\ IsImportFailure(logs'[Len(logs')])]_vars

\* With a scenario selected, an import has just failed.
C15_Witness ==
  /\ selectedScenario # <<>> /\ logs # <<>>
  /\ IsImportFailure(logs[Len(logs)])
  /\ scenarios = TEST_SCENARIOS

\* Whether x is a Scenario record: it has the fields a TestScenario has.
IsScenarioRecord(x) == {"id", "title", "parameters", "steps"} \subseteq DOMAIN x

\* C16: the catalog only ever holds Scenario records: an import whose
\* payload is not a well-formed collection of them is rejected and the
\* previous catalog retained.
C16_CatalogHoldsScenarios ==
  \A j \in DOMAIN scenarios : IsScenarioRecord(scenarios[j])

\* C17: the verdict history is newest-first: when a run completes, its
\* verdict (of the scenario of a call in flight or of the call just made,
\* at the time of completion) is at index 0 and
\* the verdicts there were follow it in their order, so every verdict is at
\* least as recent as those after it.
C17_NewestFirst ==
  [][Len(results') > Len(results) =>
       /\ Tail(results') = results
       /\ results'[1].timestamp = now'
       /\ results'[1].scenarioId \in
            {runs[r].scenario.title : r \in DOMAIN runs}
            \cup {selectedScenario[j].title : j \in DOMAIN selectedScenario}
       /\ \A i \in DOMAIN results' : results'[1].timestamp >= results'[i].timestamp]_vars

\* Two runs have completed, a failed one and then, later, a passed one.
C17_Witness ==
  /\ Len(results) = 2 /\ runs = <<>>
  /\ results[1].timestamp > results[2].timestamp
  /\ results[1].passed /\ ~results[2].passed

\* C18: the verdict history only grows: no operation removes or changes a
\* verdict, so the history there was is the tail end of the history there is.
C18_HistoryOnlyGrows ==
  [][/\ Len(results') >= Len(results)
     /\ SubSeq(results', Len(results') - Len(results) + 1, Len(results')) = results]_vars

\* C19: the transcript is append-only: every operation other than the bulk
\* clear leaves the entries there were unchanged and in place, as a prefix
\* of the new transcript.
C19_TranscriptAppendOnly ==
  [][ClearLogs \/ ( /\ Len(logs') >= Len(logs)
                    /\ SubSeq(logs', 1, Len(logs)) = logs )]_vars

\* During a run that has sent a message, an export has added its entry
\* after the run's entries.
C19_Witness ==
  /\ runs # <<>> /\ Sends # {} /\ Len(logs) >= 3
  /\ logs[Len(logs)].summary.text = "Scenarios exported successfully."

\* An entry of the console written for a failed report call.
IsReportFailure(line) == line \in {"API Key not found", "Gemini API Error:"}

\* C20: every failure of the text-generation call (a missing API key, a
\* rejected call, a response that does not parse) leaves the static fallback
\* report in the report panel and changes neither the transcript, the
\* verdict history nor the run state.
C20_FailureShowsFallback ==
  [][(Len(console') > Len(console) /\ IsReportFailure(console'[Len(console')])) =>
       /\ report' = <<FallbackReport>>
       /\ ~loading'
       /\ UNCHANGED <<logs, results, runningStep, runs>>]_vars

\* The value a parameter map holds for key, <<>> (empty) when it has none.
ValueOf(pv, key) ==
  IF \E j \in DOMAIN pv : pv[j][1] = key
    THEN pv[CHOOSE j \in DOMAIN pv : pv[j][1] = key][2]
    ELSE <<>>

Keys(pv) == {pv[j][1] : j \in DOMAIN pv}

\* The body of the last message sent.  While a call is in flight it is the
\* body that call sent for its current step.
LastSent == logs[CHOOSE k \in Sends : \A j \in Sends : j <= k].detail

\* Some {{word}} is left in the text for a word that is no key of pv.
HasPlaceholderOutside(s, pv) ==
  \E i \in DOMAIN s :
    /\ At(s, i) = "{" /\ At(s, i + 1) = "{"
    /\ IsWord(At(s, i + 2)) /\ At(s, i + 2) \notin Keys(pv)
    /\ At(s, i + 3) = "}" /\ At(s, i + 4) = "}"

\* Every declared parameter of the run's scenario passes validateParameter
\* with the value the run holds for it.
RunValuesValid(ctx) ==
  \A j \in DOMAIN ctx.scenario.parameters :
    validateParameter(ctx.scenario.parameters[j],
                      ValueOf(ctx.paramValues, ctx.scenario.parameters[j].key)) = NoError

\* C8: a template that names a placeholder with no entry in the parameter map
\* does not resolve, so no message is sent whose body carries a placeholder
\* for a key the run's map lacks.
C8_NoUndeclaredPlaceholderSent ==
  \A r \in DOMAIN runs :
    Sends # {} => ~HasPlaceholderOutside(LastSent, runs[r].paramValues)

\* C9: when every declared parameter passes validateParameter, no message the
\* run sends has a placeholder left in its body.
C9_ValidValuesLeaveNoPlaceholder ==
  \A r \in DOMAIN runs :
    RunValuesValid(runs[r]) /\ Sends # {} => ~HasPlaceholder(LastSent)

\* C10: no run is in progress whose scenario has a declared parameter with a
\* value that fails validation (the run holds the values it started with).
C10_RunsStartValid ==
  \A r \in DOMAIN runs : RunValuesValid(runs[r])

\* ------------------------------------------------------ claims C21 to C30

\* The declaration of the parameter at place j of the selected scenario.
ParamAt(j) == selectedScenario[1].parameters[j]

\* value is outside what a number parameter with both bounds accepts.
FailsNumeric(param, value) ==
  \/ value = <<>>
  \/ Number(value).nan
  \/ Number(value).n < param.min[1]
  \/ Number(value).n > param.max[1]

\* C21: for a number parameter that declares min and max, an edit leaves an
\* error under the parameter's key exactly when the value is empty, is no
\* number, is below min or is above max (the bounds themselves pass); the
\* message names min below min and max above max; for NEWVAL (0..9999) the
\* value -1 gives the min message under NEWVAL and 100 gives no error.
C21_NumericValidation ==
  [][\A j \in DOMAIN paramValues : \A value \in EnteredNumbers :
       (/\ ParamAt(j).type = "NUMBER" /\ ParamAt(j).min # <<>> /\ ParamAt(j).max # <<>>
        /\ ParamEntry(j, value)) =>
         LET param == ParamAt(j)
             key == param.key
             num == Number(value)
         IN /\ key \in DOMAIN validationErrors' <=> FailsNumeric(param, value)
            /\ (value # <<>> /\ ~num.nan /\ num.n < param.min[1]) =>
                 validationErrors'[key] = [msg |-> "Min value", n |-> param.min]
            /\ (value # <<>> /\ ~num.nan /\ num.n > param.max[1]) =>
                 validationErrors'[key] = [msg |-> "Max value", n |-> param.max]
            /\ (key = "NEWVAL" /\ value = <<"-", "1">>) =>
                 validationErrors'[key] = [msg |-> "Min value", n |-> <<0>>]
            /\ (key = "NEWVAL" /\ value = <<"1", "0", "0">>) =>
                 key \notin DOMAIN validationErrors']_vars

\* NEWVAL of e142-obj-services was set to -1: it alone is in error, with the
\* min message.
C21_Witness ==
  /\ selectedScenario = <<E142ObjServices>>
  /\ ValueOf(paramValues, "NEWVAL") = <<"-", "1">>
  /\ DOMAIN validationErrors = {"NEWVAL"}
  /\ validationErrors["NEWVAL"] = [msg |-> "Min value", n |-> <<0>>]

\* Two sends of the same message of the scenario carry the same body.
SameBodies ==
  \A k1 \in Sends : \A k2 \in Sends :
    logs[k1].summary = logs[k2].summary => logs[k1].detail = logs[k2].detail

IsStartOf(e, title) ==
  e.direction = "INFO" /\ e.summary.text = "Starting Scenario: " /\ e.summary.s = <<title>>
IsCompleteWith(e, word) ==
  e.direction = "INFO" /\ e.summary.text = "Scenario Complete: " /\ e.summary.s = <<word>>

\* An entry written by a run, as opposed to one of the import, export and
\* blocked-run entries.
IsRunEntry(e) ==
  \/ IsSend(e) \/ IsReply(e) \/ IsT3(e) \/ IsNoMock(e) \/ IsParseFail(e)
  \/ e.direction = "INFO" /\ e.summary.text \in {"Starting Scenario: ", "Scenario Complete: "}

RunLog == SelectSeq(logs, IsRunEntry)

\* The entries that follow the start entry at place k of the run log rl, as
\* far as they are there, are those of a run of e9-timeout.
E9TimeoutRunAt(rl, k) ==
  /\ k + 1 <= Len(rl) =>
       /\ IsSendOf(rl[k + 1], E9Timeout.steps[1])
       /\ rl[k + 1].timestamp = rl[k].timestamp
  /\ k + 2 <= Len(rl) =>
       /\ IsReply(rl[k + 2]) /\ rl[k + 2].summary.s = <<"S1F2">>
       /\ rl[k + 2].type = "success"
       /\ rl[k + 2].timestamp = rl[k + 1].timestamp + 500
  /\ k + 3 <= Len(rl) =>
       /\ IsSendOf(rl[k + 3], E9Timeout.steps[2])
       /\ rl[k + 3].timestamp = rl[k + 2].timestamp + StepPause
  /\ k + 4 <= Len(rl) =>
       /\ IsT3(rl[k + 4]) /\ rl[k + 4].summary.a = <<2000, 8000>>
       /\ rl[k + 4].type = "error"
       /\ rl[k + 4].timestamp = rl[k + 3].timestamp + 2000
  /\ k + 5 <= Len(rl) =>
       /\ IsCompleteWith(rl[k + 5], "FAILED")
       /\ rl[k + 5].timestamp = rl[k + 4].timestamp + T3Pause

\* C23: a run of e9-timeout (step 1 reply-expected, delay 500, timeout 5000,
\* expected S1F2; step 2 reply-expected, delay 8000, timeout 2000) gives:
\* after the send of step 1 an equipment-to-host entry, after the send of
\* step 2 and a wait of 2000 ms a T3 error entry, and a verdict with passed =
\* false whose notes speak of failure.
C23_TimeoutScenarioOutcome ==
  /\ \A k \in DOMAIN RunLog :
       IsStartOf(RunLog[k], E9Timeout.title) => E9TimeoutRunAt(RunLog, k)
  /\ \A i \in DOMAIN results :
       results[i].scenarioId = E9Timeout.title =>
         /\ ~results[i].passed
         /\ results[i].notes = "Scenario failed due to errors or timeouts."

\* One run of e9-timeout has ended: six run entries and a failed verdict.
C23_Witness ==
  /\ runs = <<>>
  /\ Len(RunLog) = 6
  /\ IsStartOf(RunLog[1], E9Timeout.title)
  /\ IsReply(RunLog[3]) /\ IsT3(RunLog[5]) /\ IsCompleteWith(RunLog[6], "FAILED")
  /\ Len(results) = 1 /\ results[1].scenarioId = E9Timeout.title /\ ~results[1].passed
  /\ runningStep = <<>>

\* The entry of a blocked run request.
IsBlockedEntry(e) ==
  /\ e.direction = "ERROR" /\ e.type = "error"
  /\ e.summary.text = "Execution Blocked: Fix invalid parameters."

\* C24: a run request made while the validation error map is not empty
\* appends one error entry to the transcript and does nothing else (no
\* verdict, no send, runningStep still null, no run started), and while a
\* run is in progress a run request reports no validation error.
C24_BlockedRunOnlyLogs ==
  [][/\ (RunScenario /\ runningStep = <<>> /\ DOMAIN validationErrors # {}) =>
          /\ Len(logs') = Len(logs) + 1
          /\ SubSeq(logs', 1, Len(logs)) = logs
          /\ IsBlockedEntry(logs'[Len(logs')])
          /\ logs'[Len(logs')].detail = JSONstringify(JObj(ErrorMembers(paramValues, validationErrors)))
          /\ UNCHANGED <<results, runningStep, runs, scenarios, selectedScenario,
                         paramValues, validationErrors>>
     /\ (Len(logs') > Len(logs) /\ IsBlockedEntry(logs'[Len(logs')])) =>
          /\ runs = <<>> /\ runningStep = <<>>
          /\ DOMAIN validationErrors # {}
          /\ UNCHANGED <<results, runningStep, runs>>]_vars

\* With a parameter in error and nothing run yet, a run request has just
\* been blocked.
C24_Witness ==
  /\ logs # <<>> /\ IsBlockedEntry(logs[Len(logs)])
  /\ Sends = {} /\ results = <<>> /\ runningStep = <<>> /\ runs = <<>>
  /\ DOMAIN validationErrors # {}

\* The step does not time out and declares an expected response that
\* MOCK_RESPONSES lacks.
FallbackStep(step) ==
  /\ ClaimResolves(step) /\ ~ClaimTimesOut(step)
  /\ step.expectedResponseSxFy # <<>>
  /\ step.expectedResponseSxFy[1] \notin MockKeys

\* The steps the call in flight has completed.
StepsDone(ctx) == IF ctx.pc \in {"pause", "t3pause"} THEN ctx.i + 1 ELSE ctx.i

\* C25: a step that does not time out and declares an expected response the
\* reply table lacks gets, right after its send, one equipment-to-host
\* success entry with the generic payload {"ACK": 0}, and counts as
\* acknowledged: a run of such steps alone keeps allPassed and ends passed.
C25_FallbackAcknowledges ==
  /\ \A k \in Sends :
       FallbackStep(StepOfSend(k)) /\ k < Len(logs) =>
         /\ IsReply(logs[k + 1])
         /\ logs[k + 1].type = "success"
         /\ logs[k + 1].summary = Summary("Ack", <<>>, StepOfSend(k).expectedResponseSxFy)
         /\ logs[k + 1].detail = JSONstringify(JObj(<<M("ACK", JNum(<<"0">>))>>))
         /\ k + 1 < Len(logs) => ~IsAfterSend(logs[k + 2])
  /\ \A r \in DOMAIN runs :
       (\A j \in 1..StepsDone(runs[r]) : FallbackStep(TheSteps[j])) => runs[r].allPassed
  /\ Finished /\ (\A j \in DOMAIN TheSteps : FallbackStep(TheSteps[j])) => results[1].passed

\* A run of two steps, each with an expected response the table lacks, has
\* ended passed with the two fallback entries.
C25_Witness ==
  /\ Finished /\ Len(TheSteps) = 2
  /\ \A j \in DOMAIN TheSteps : FallbackStep(TheSteps[j])
  /\ Cardinality(Replies) = 2 /\ results[1].passed

\* The step does not time out and declares no expected response.
UndeclaredStep(step) ==
  ClaimResolves(step) /\ ~ClaimTimesOut(step) /\ step.expectedResponseSxFy = <<>>

\* C26: a step that does not time out and declares no expected response gets
\* no equipment-to-host entry; when it asks for a reply the run writes one
\* error entry and marks the scenario failed, and goes on to the next step;
\* when it asks for none nothing more is written and the scenario is not
\* marked failed.
C26_NoExpectedResponse ==
  /\ \A k \in Sends :
       UndeclaredStep(StepOfSend(k)) /\ k < Len(logs) =>
         /\ ~IsReply(logs[k + 1])
         /\ StepOfSend(k).messageToSend.waitBit =>
              /\ IsNoMock(logs[k + 1]) /\ logs[k + 1].type = "error"
              /\ logs[k + 1].summary.a = <<StepOfSend(k).messageToSend.stream,
                                           StepOfSend(k).messageToSend.function>>
              /\ logs[k + 1].timestamp = logs[k].timestamp + ClaimDelay(StepOfSend(k))
              /\ k + 1 < Len(logs) => ~IsAfterSend(logs[k + 2])
         /\ ~StepOfSend(k).messageToSend.waitBit => ~IsAfterSend(logs[k + 1])
  /\ \A r \in DOMAIN runs :
       /\ (\E j \in 1..StepsDone(runs[r]) : ClaimNoOracle(TheSteps[j])) => ~runs[r].allPassed
       /\ (\A j \in 1..StepsDone(runs[r]) : ClaimNeutral(TheSteps[j])) => runs[r].allPassed
  /\ Finished =>
       /\ (\E k \in Sends : ClaimNoOracle(StepOfSend(k))) => ~results[1].passed
       /\ (\A j \in DOMAIN TheSteps : ClaimNeutral(TheSteps[j])) => results[1].passed
       /\ (\A j \in DOMAIN TheSteps : UndeclaredStep(TheSteps[j])) =>
            Cardinality(Sends) = Len(TheSteps)

\* A run has ended failed whose first step asked for a reply nobody declared
\* and whose second step, asking for none, was sent after it.
C26_Witness ==
  /\ Finished /\ Len(TheSteps) = 2
  /\ ClaimNoOracle(TheSteps[1]) /\ ClaimNeutral(TheSteps[2])
  /\ Cardinality(Sends) = 2 /\ Len(logs) = 5
  /\ ~results[1].passed

\* The entries a step has appended.
Appended == SubSeq(logs', Len(logs) + 1, Len(logs'))

IsExportEntry(e) ==
  e.direction = "INFO" /\ e.summary.text = "Scenarios exported successfully."
IsImportEntry(e) ==
  IsImportFailure(e) \/ (e.direction = "INFO" /\ e.summary.text = "Imported scenarios successfully.")

\* C27: appends to the transcript are linearizable: whatever the
\* interleaving of a run's appends with those of the import and export
\* handlers (the clear aside), every step keeps the entries there were in
\* place and adds its own entries whole after them, one per append it
\* issues, in the order of issue: one entry for an export, one for an import,
\* and for a stretch of a run its entries, at most three, stamped with the
\* time of the stretch.
C27_AppendsLinearizable ==
  [][ClearLogs \/
     ( /\ Len(logs') >= Len(logs)
       /\ SubSeq(logs', 1, Len(logs)) = logs
       /\ \A k \in DOMAIN Appended : Appended[k].timestamp = now'
       /\ \A k \in DOMAIN logs' : k > 1 => logs'[k - 1].timestamp <= logs'[k].timestamp
       /\ Export => Len(Appended) = 1 /\ IsExportEntry(Appended[1])
       /\ (\E file \in ImportFiles : Import(file)) =>
            Len(Appended) = 1 /\ IsImportEntry(Appended[1])
       /\ RunScenario =>
            \/ Appended = <<>>
            \/ Len(Appended) = 1 /\ IsBlockedEntry(Appended[1])
            \/ /\ Len(Appended) = 2
               /\ IsStartOf(Appended[1], selectedScenario[1].title)
               /\ IsSend(Appended[2]) \/ IsCompleteWith(Appended[2], "PASSED")
            \/ /\ Len(Appended) = 3
               /\ IsStartOf(Appended[1], selectedScenario[1].title)
               /\ IsParseFail(Appended[2]) /\ IsCompleteWith(Appended[3], "FAILED")
       /\ (\E r \in DOMAIN runs : TimerFires(r)) =>
            /\ Len(Appended) <= 2
            /\ \A k \in DOMAIN Appended :
                 IsRunEntry(Appended[k]) /\ Appended[k].summary.text # "Starting Scenario: "
            /\ Len(Appended) = 2 =>
                 IsParseFail(Appended[1]) /\ IsCompleteWith(Appended[2], "FAILED") )]_vars

\* During a run, between the send of a step and its reply, an export and a
\* failed import have each added their entry.
C27_Witness ==
  /\ Len(logs) >= 5
  /\ \E k \in Sends :
       /\ k + 3 <= Len(logs)
       /\ IsExportEntry(logs[k + 1])
       /\ IsImportFailure(logs[k + 2])
       /\ IsReply(logs[k + 3])

\* runningStep is null when no call is in flight and else the index of the
\* step the call is at, one of its scenario's steps.
ProgressShown ==
  /\ runningStep = <<>> <=> runs = <<>>
  /\ \A r \in DOMAIN runs :
       /\ runningStep = <<runs[r].i>>
       /\ runs[r].i \in 0..(Len(runs[r].scenario.steps) - 1)

\* C28: runningStep is null exactly when no run is in progress; during a run
\* of a scenario with N steps it is the index of the step being executed,
\* within 0..N-1, and it never decreases; it is null again when the verdict
\* is added to the history.
C28_RunProgress ==
  [][/\ ProgressShown'
     /\ (runs # <<>> /\ runs' # <<>>) => runningStep'[1] >= runningStep[1]
     /\ Len(results') > Len(results) => runningStep' = <<>> /\ runs' = <<>>]_vars

\* A run is at its second step, with the entries of its first step in the
\* transcript.
C28_Witness ==
  /\ runs # <<>> /\ runningStep = <<1>> /\ runs[1].i = 1
  /\ Cardinality(Sends) = 2 /\ results = <<>>

\* value does not pass the checks a declaration asks for: it is empty, or the
\* parameter is a number and value is none or is outside a declared bound.
FailsValidation(param, value) ==
  \/ value = <<>>
  \/ /\ param.type = "NUMBER"
     /\ \/ Number(value).nan
        \/ param.min # <<>> /\ Number(value).n < param.min[1]
        \/ param.max # <<>> /\ Number(value).n > param.max[1]

\* Every key of the error map is a declared parameter whose current value
\* fails validation, and a parameter whose value is not its default any more
\* is in the map exactly when that value fails.
ErrorsMatchValues ==
  /\ \A k \in DOMAIN validationErrors :
       \E j \in DOMAIN selectedScenario[1].parameters :
         /\ ParamAt(j).key = k
         /\ FailsValidation(ParamAt(j), ValueOf(paramValues, k))
  /\ \A j \in DOMAIN paramValues :
       ValueOf(paramValues, ParamAt(j).key) # ParamAt(j).defaultValue =>
         (ParamAt(j).key \in DOMAIN validationErrors
            <=> FailsValidation(ParamAt(j), ValueOf(paramValues, ParamAt(j).key)))

PredictedPass(ctx) == RunOut(ctx, <<>>, <<>>).results[1].passed

\* The entries a stretch of the call ctx appends when it goes on to the step
\* at place j: the send with the body resolved from the values the call
\* holds, or the parse error and the failed end.
ResolvedFromOwnValues(ctx, j) ==
  \E body \in {resolveBody(ctx.scenario.steps[j].messageToSend.body, ctx.paramValues)} :
    IF body.ok
      THEN /\ Len(Appended) = 1
           /\ IsSendOf(Appended[1], ctx.scenario.steps[j])
           /\ Appended[1].detail = JSONstringify(body.val)
      ELSE /\ Len(Appended) = 2
           /\ IsParseFail(Appended[1])
           /\ IsCompleteWith(Appended[2], "FAILED")

\* C30: a run uses the parameter values in effect when it started: the call
\* takes the values of that moment, no edit and no selection made while it
\* is in progress changes what it holds, every later step's body is resolved
\* from those values, and the verdict it ends with is the one its start
\* determined.
C30_RunKeepsStartValues ==
  [][/\ (RunScenario /\ Len(runs') > Len(runs)) =>
          /\ runs'[Len(runs')].paramValues = paramValues
          /\ runs'[Len(runs')].scenario = selectedScenario[1]
     /\ (paramValues' # paramValues \/ selectedScenario' # selectedScenario) =>
          runs' = runs
     /\ \A r \in DOMAIN runs :
          TimerFires(r) =>
            /\ runs' # <<>> =>
                 /\ runs'[r].paramValues = runs[r].paramValues
                 /\ runs'[r].scenario = runs[r].scenario
                 /\ PredictedPass(runs'[r]) = PredictedPass(runs[r])
            /\ runs' = <<>> => results'[1].passed = PredictedPass(runs[r])
            /\ (runs[r].pc \in {"pause", "t3pause"}
                  /\ runs[r].i + 2 <= Len(runs[r].scenario.steps)) =>
                 ResolvedFromOwnValues(runs[r], runs[r].i + 2)]_vars

\* A run is past its first step and has sent a later one, with the body its
\* own values give, while the values on screen have been edited and would
\* give another body.
C30_Witness ==
  /\ runs # <<>> /\ runs[1].i >= 1
  /\ runs[1].paramValues # paramValues
  /\ selectedScenario = <<runs[1].scenario>>
  /\ \E own \in {resolveBody(runs[1].scenario.steps[runs[1].i + 1].messageToSend.body,
                             runs[1].paramValues)} :
       \E shown \in {resolveBody(runs[1].scenario.steps[runs[1].i + 1].messageToSend.body,
                                 paramValues)} :
         /\ own.ok /\ LastSent = JSONstringify(own.val)
         /\ ~shown.ok \/ JSONstringify(shown.val) # LastSent

\* ------------------------------------------------------ claims C31 to C34

\* The directions and summaries of a stretch of transcript.
Strip(lg) == [k \in DOMAIN lg |-> <<lg[k].direction, lg[k].summary>>]

\* A run of scenario with the values pv as the first thing the program
\* does: empty transcript, empty history, clock at 0.
FreshRun(scenario, pv) ==
  Only({ IF left.run = <<>> THEN left ELSE RunOut(left.run[1], left.logs, left.results)
         : left \in {LoopFrom([scenario |-> scenario, paramValues |-> pv, i |-> 0,
                               allPassed |-> TRUE, pc |-> "start", due |-> 0], 0,
                              addLog(<<>>, 0, "INFO",
                                     Summary("Starting Scenario: ", <<>>, <<scenario.title>>),
                                     EmptyDetail, "info"),
                              <<>>, 0)} })

\* What the call ctx has yet to write and the verdict it ends with, were it
\* alone from here on an empty transcript.
RestOf(ctx) ==
  Only({ [entries |-> Strip(end.logs), passed |-> end.results[1].passed]
         : end \in {RunOut(ctx, <<>>, <<>>)} })

\* C31: the engine carries nothing from one run to the next: whatever runs,
\* clears and other events came before, a run writes the entries (their
\* directions and summaries) and ends with the passed flag that a first run
\* of the same scenario with the same values gives.
C31_RunsAreStateless ==
  [][/\ (RunScenario /\ Appended # <<>> /\ ~IsBlockedEntry(Appended[1])) =>
          \E fresh \in {FreshRun(selectedScenario[1], paramValues)} :
            IF Len(runs') > Len(runs)
              THEN \E rest \in {RestOf(runs'[Len(runs')])} :
                     /\ Strip(Appended) \o rest.entries = Strip(fresh.logs)
                     /\ rest.passed = fresh.results[1].passed
              ELSE /\ Strip(Appended) = Strip(fresh.logs)
                   /\ results'[1].passed = fresh.results[1].passed
     /\ \A r \in DOMAIN runs :
          TimerFires(r) =>
            \E before \in {RestOf(runs[r])} :
              IF runs' # <<>>
                THEN \E rest \in {RestOf(runs'[r])} :
                       /\ Strip(Appended) \o rest.entries = before.entries
                       /\ rest.passed = before.passed
                ELSE /\ Strip(Appended) = before.entries
                     /\ results'[1].passed = before.passed]_vars

\* After a run that failed, a second run has ended passed, its entries those
\* of a first run of its scenario.
C31_Witness ==
  /\ runs = <<>> /\ selectedScenario # <<>>
  /\ Len(results) = 2 /\ results[1].passed /\ ~results[2].passed
  /\ results[1].scenarioId = selectedScenario[1].title
  /\ \E fresh \in {FreshRun(selectedScenario[1], paramValues)} :
       /\ Len(RunLog) > Len(fresh.logs)
       /\ Strip(SubSeq(RunLog, Len(RunLog) - Len(fresh.logs) + 1, Len(RunLog))) = Strip(fresh.logs)

IsStartEntry(e) == e.direction = "INFO" /\ e.summary.text = "Starting Scenario: "
IsCompleteEntry(e) == e.direction = "INFO" /\ e.summary.text = "Scenario Complete: "

\* Among the entries of runs the transcript holds, a start entry is what
\* follows a completion entry, and nothing else does.
RunsBracketed ==
  \E rl \in {RunLog} :
    \A k \in 2..Len(rl) : IsStartEntry(rl[k]) <=> IsCompleteEntry(rl[k - 1])

\* C32: a run brackets its entries: what it writes first is the INFO start
\* entry, what it writes last is the completion entry, together with its
\* verdict, and its step entries come in between; the completion entry says
\* PASSED with severity success when that verdict has passed = true and
\* FAILED with severity error when it has not.
C32_RunBracketsEntries ==
  [][/\ RunsBracketed'
     /\ (RunScenario /\ Appended # <<>> /\ ~IsBlockedEntry(Appended[1])) =>
          /\ IsStartOf(Appended[1], selectedScenario[1].title)
          /\ Appended[1].type = "info"
          /\ \A k \in 2..Len(Appended) : ~IsStartEntry(Appended[k])
     /\ (\E r \in DOMAIN runs : TimerFires(r)) =>
          \A k \in DOMAIN Appended : IsRunEntry(Appended[k]) /\ ~IsStartEntry(Appended[k])
     /\ \A k \in DOMAIN Appended :
          IsCompleteEntry(Appended[k]) =>
            /\ k = Len(Appended)
            /\ Len(results') = Len(results) + 1
            /\ Appended[k].timestamp = results'[1].timestamp
            /\ Appended[k].summary.s = <<IF results'[1].passed THEN "PASSED" ELSE "FAILED">>
            /\ Appended[k].type = IF results'[1].passed THEN "success" ELSE "error"
     /\ Len(results') > Len(results) =>
          Appended # <<>> /\ IsCompleteEntry(Appended[Len(Appended)])
     /\ (Len(runs') < Len(runs)) =>
          Appended # <<>> /\ IsCompleteEntry(Appended[Len(Appended)])]_vars

\* Two runs have ended, a failed one and a passed one: each has its start
\* entry, its step entries and its completion entry, FAILED and PASSED.
C32_Witness ==
  /\ runs = <<>> /\ Len(results) = 2
  /\ IsStartEntry(RunLog[1])
  /\ \E k \in 3..(Len(RunLog) - 3) :
       /\ IsCompleteWith(RunLog[k], "FAILED") /\ RunLog[k].type = "error"
       /\ IsStartEntry(RunLog[k + 1])
  /\ IsCompleteWith(RunLog[Len(RunLog)], "PASSED")
  /\ RunLog[Len(RunLog)].type = "success"

\* C33: a run of a scenario with no steps sends no message and ends at
\* once, Idle, with a verdict that has passed = true; the start entry and
\* the completion entry are all it writes.
C33_EmptyScenarioPasses ==
  TheSteps = <<>> =>
    /\ runs = <<>> /\ runningStep = <<>> /\ Sends = {}
    /\ IF nruns = MaxRuns - 1
         THEN logs = <<>> /\ results = <<>>
         ELSE /\ Len(logs) = 2
              /\ IsStartOf(logs[1], selectedScenario[1].title)
              /\ IsCompleteWith(logs[2], "PASSED") /\ logs[2].type = "success"
              /\ Len(results) = 1 /\ results[1].passed
              /\ results[1].scenarioId = selectedScenario[1].title
              /\ results[1].notes = "All steps completed successfully."

\* A scenario with no steps has been run.
C33_Witness ==
  /\ TheSteps = <<>> /\ nruns = MaxRuns
  /\ Len(logs) = 2 /\ Len(results) = 1 /\ results[1].passed

\* The call in flight, left to its own timers, ends with a verdict.
Completes(ctx) ==
  \E end \in {RunOut(ctx, <<>>, <<>>)} :
    /\ end.run = <<>> /\ end.runningStep = <<>>
    /\ Len(end.results) = 1 /\ end.results[1].scenarioId = ctx.scenario.title

\* C34: a scenario does not change once its run has started: the call holds
\* the scenario that was selected at its start, an import (which replaces
\* the catalog and clears the selection) and a selection leave what the
\* call holds untouched, each step sent is the next step of that scenario,
\* in order, and the run still ends with its verdict.
C34_ScenarioFixedAtStart ==
  [][/\ (RunScenario /\ Len(runs') > Len(runs)) =>
          runs'[Len(runs')].scenario = selectedScenario[1]
     /\ (scenarios' # scenarios \/ selectedScenario' # selectedScenario) =>
          runs' = runs /\ runningStep' = runningStep /\ results' = results
     /\ \A r \in DOMAIN runs' : Completes(runs'[r])
     /\ \A r \in DOMAIN runs :
          TimerFires(r) =>
            /\ runs' # <<>> =>
                 /\ runs'[r].scenario = runs[r].scenario
                 /\ runs'[r].i \in {runs[r].i, runs[r].i + 1}
            /\ \A k \in DOMAIN Appended :
                 IsSend(Appended[k]) =>
                   /\ runs[r].i + 2 <= Len(runs[r].scenario.steps)
                   /\ IsSendOf(Appended[k], runs[r].scenario.steps[runs[r].i + 2])
                   /\ runs' # <<>> /\ runs'[r].i = runs[r].i + 1
            /\ runs' = <<>> =>
                 /\ Len(results') = Len(results) + 1
                 /\ results'[1].scenarioId = runs[r].scenario.title
                 /\ \/ runs[r].i + 1 = Len(runs[r].scenario.steps)
                    \/ Appended # <<>> /\ IsParseFail(Appended[1])]_vars

\* During a run of e9-timeout an import replaced the catalog and cleared the
\* selection, between the sends of the two steps; the run has ended with
\* its verdict.
C34_Witness ==
  /\ runs = <<>> /\ selectedScenario = <<>> /\ scenarios # TEST_SCENARIOS
  /\ results # <<>> /\ results[1].scenarioId = E9Timeout.title
  /\ \E k1 \in Sends : \E k3 \in Sends : \E k2 \in (k1 + 1)..(k3 - 1) :
       /\ IsSendOf(logs[k1], E9Timeout.steps[1])
       /\ logs[k2].summary.text = "Imported scenarios successfully."
       /\ IsSendOf(logs[k3], E9Timeout.steps[2])

====
